---- MODULE Spec2Model ----
(***************************************************************************)
(* A model of the cable-cell simulation core of arbor:                     *)
(*   - fvm_lowered_cell_impl::integrate (arbor/fvm_lowered_cell_impl.hpp)  *)
(*     with the shared-state event stream and the threshold watcher;       *)
(*   - the communicator (spike exchange, event generation) and the         *)
(*     double-buffered epoch loop of the simulation driver.                *)
(* Time is counted in integer ticks; an interpolated crossing time is the  *)
(* exact fraction num/den.                                                 *)
(***************************************************************************)
EXTENDS Integers, Sequences, FiniteSets, Bags, TLC

VARIABLES
    \* ---- fvm_lowered_cell_impl / shared_state --------------------------
    pc,               \* position inside integrate ("idle" between calls)
    tmin_,            \* fvm_lowered_cell_impl::tmin_
    tfinal,           \* argument of the running call
    dt_max,           \* argument of the running call
    remaining_steps,  \* local of integrate
    wr_it,            \* waveform-relaxation iteration counter
    time,             \* state_->time, one entry per integration domain
    time_to,          \* state_->time_to
    dt_intdom,        \* state_->dt_intdom
    staged,           \* the staged_events argument (sequence of events)
    ev_stream,        \* deliverable_events: per intdom, event ids sorted by time
    span_begin,       \* deliverable_events: first not yet dropped event
    mark,             \* deliverable_events: end of the marked span
    mech_i,           \* position in the loop over mechanisms_
    applied,          \* per mechanism: the events applied by deliver_events
    voltage,          \* state_->voltage at the detector CVs
    v_prev,           \* threshold watcher: voltage at the previous test
    is_crossed,       \* threshold watcher: is-above flag per detector
    crossings,        \* threshold watcher: crossing list
    detectors,        \* the threshold detectors of the cell group
    ncall,            \* number of integrate calls made so far
    step_no,          \* number of steps begun in the running call
    t_call,           \* the cell time when the running call began
    returned,         \* number of crossings returned by the calls made so far
    phases,           \* the operations the current step has made, in order
    raised,           \* the range_check_failure integrate has thrown, if any
    check_voltage_mV_, \* fvm_lowered_cell_impl::check_voltage_mV_
    saved,            \* the copies integrate takes before the outer loop (lines 233-279)
    wr_count,         \* number of outer (waveform-relaxation) iterations begun in the running call
    v_before,         \* voltage at the detector CVs before the last matrix solve
    \* ---- spike gather (one entry per rank) ------------------------------
    local_in,         \* the local spikes handed to exchange
    sendbuf,          \* the values handed to the all-gather
    gpc,              \* position of the rank inside exchange
    counts,           \* counts, as received by MPI_Allgather
    displ,            \* displ
    buffer,           \* the receive buffer of MPI_Allgatherv
    gathered,         \* the gathered vector: values and partition
    \* ---- event generation (one entry per rank) --------------------------
    connections,      \* the connection table of the communicator
    gspikes,          \* the global spikes handed to make_event_queues
    queues,           \* per cell group: the event list (pending events)
    queues_before,    \* the event lists at the call of make_event_queues
    epc,              \* position of the rank around make_event_queues
    \* ---- simulation driver (one entry per rank) -------------------------
    t_interval,       \* the epoch length
    sim_tfinal,       \* the tfinal of the run
    dk,               \* the id of the epoch the rank is in
    dphase,           \* "join" between epochs, "epoch" while tasks run, "finished"
    adv,              \* per cell group: state of the advance task
    xch,              \* state of the exchange task
    spike_buf,        \* local spikes: per buffer and cell group
    event_lanes,      \* event lanes: per buffer and cell group
    group_time,       \* per cell group: the time the group has advanced to
    placed,           \* the events the last event generation placed in lanes
    nspikes,          \* number of spikes generated in the run so far
    \* ---- fvm_build_mechanism_data: point mechanisms ---------------------
    spc,              \* position in the build of one point mechanism's config
    coalesce_synapses,\* gprop.coalesce_synapses
    linear,           \* info.linear
    placements,       \* entry.second: the placements of the mechanism
    inst_list,        \* inst_list
    cv_order,         \* cv_order: indices into inst_list
    config,           \* the fvm_mechanism_config being filled
    emit_i,           \* number of entries of cv_order the last loop has handled
    \* ---- fvm_build_mechanism_data: verification and reversal potentials -
    bpc,              \* position in the build
    ion_species,      \* gprop.ion_species: charge of every known ion
    used,             \* the mechanisms used on the cell, in build order
    dflt_revpot,      \* the cell's reversal_potential_method
    global_revpot,    \* the global defaults' reversal_potential_method
    verify_i,         \* number of used mechanisms verified so far
    revpot_tbl,       \* revpot_tbl
    revpot_specified, \* revpot_specified
    ions_done,        \* the ions the reversal potential loop has handled
    M,                \* the mechanism data being built
    build_error,      \* the exception the build has thrown, if any
    used_cv,          \* config.cv of every painted mechanism
    ion_support,      \* ion_support
    \* ---- cv_geometry ----------------------------------------------------
    apc,              \* position in the combination of geometries
    cell_disc,        \* the geometries to combine
    n_appended,       \* number of geometries appended so far
    combined,         \* the combined geometry
    lhs,              \* append(append(A, B), C), step by step
    rhs,              \* append(A, append(B, C)), step by step
    \* ---- fvm_cv_discretize of one cell ----------------------------------
    dpc,              \* position in the loop over the CVs
    embedding,        \* the membrane area of every CV, from the embedding
    D,                \* the fvm_cv_discretization being filled
    cv_i,             \* the CV the loop is at
    \* ---- fvm_intdom ------------------------------------------------------
    ipc,              \* position in fvm_intdom
    gids,             \* the gids of the cell group
    gj_peers,         \* rec.gap_junctions_on: the peer gids of every cell
    cell_to_intdom,   \* cell_to_intdom
    gid_to_loc,       \* gid_to_loc
    visited,          \* visited
    intdomq,          \* intdomq
    intdom_id,        \* intdom_id
    gid_k,            \* number of gids the outer loop has taken
    \* ---- initialize: the target handles -----------------------------------
    hpc,              \* position in the build of the target handles
    cell_synapses,    \* per cell: the placements of every point mechanism
    gprop_coalesce,   \* gprop.coalesce_synapses
    cell_mech,        \* per cell: the mechanism data built for the cell
    mech_data,        \* the combined mechanism data
    n_combined,       \* number of cells appended to mech_data
    target_handles,   \* fvm_info.target_handles
    n_written,        \* per target index: number of handles assigned to it
    mech_ids,         \* the mechanism id of every instantiated mechanism
    mech_id,          \* mech_id
    \* ---- location_cv -------------------------------------------------------
    lpc,              \* position in location_cv
    pw_cv_offset,     \* branch_cv_map.at(cell_idx).at(loc.branch)
    cv_base,          \* cell_cv_divs.at(cell_idx)
    loc_pos,          \* loc.pos
    prefer,           \* the preference policy
    loc_i,            \* i
    loc_cv,           \* the CV returned
    \* ---- initialize: the probes --------------------------------------------
    ppc,              \* position in the loop over the probes
    rec_probes,       \* per cell: the probes of rec.get_probes(gid)
    probe_cell,       \* cell_idx
    probe_i,          \* i
    probe_data,       \* probe_data
    probe_map         \* fvm_info.probe_map

intVars == <<pc, tmin_, tfinal, dt_max, remaining_steps, wr_it, time, time_to,
             dt_intdom, staged, ev_stream, span_begin, mark, mech_i, applied,
             voltage, v_prev, is_crossed, crossings, detectors, ncall, step_no,
             t_call, returned, phases, raised, check_voltage_mV_, saved, wr_count, v_before>>

gatherVars == <<local_in, sendbuf, gpc, counts, displ, buffer, gathered>>

eventVars == <<connections, gspikes, queues, queues_before, epc>>

driverVars == <<t_interval, sim_tfinal, dk, dphase, adv, xch, spike_buf,
                event_lanes, group_time, placed, nspikes>>

commVars == <<gatherVars, eventVars, driverVars>>

synVars == <<spc, coalesce_synapses, linear, placements, inst_list, cv_order,
             config, emit_i>>

buildVars == <<bpc, ion_species, used, dflt_revpot, global_revpot, verify_i,
               revpot_tbl, revpot_specified, ions_done, M, build_error,
               used_cv, ion_support>>

geomVars == <<apc, cell_disc, n_appended, combined, lhs, rhs>>

discVars == <<dpc, embedding, D, cv_i>>

intdomVars == <<ipc, gids, gj_peers, cell_to_intdom, gid_to_loc, visited,
                intdomq, intdom_id, gid_k>>

handleVars == <<hpc, cell_synapses, gprop_coalesce, cell_mech, mech_data,
                n_combined, target_handles, n_written, mech_ids, mech_id>>

locVars == <<lpc, pw_cv_offset, cv_base, loc_pos, prefer, loc_i, loc_cv>>

probeVars == <<ppc, rec_probes, probe_cell, probe_i, probe_data, probe_map>>

cellVars == <<discVars, intdomVars, handleVars, locVars, probeVars>>

\* What the discretization of a cell and what fvm_intdom leave alone.
discRest == <<intVars, commVars, synVars, buildVars, geomVars, intdomVars,
              handleVars, locVars, probeVars>>

intdomRest == <<intVars, commVars, synVars, buildVars, geomVars, discVars,
                handleVars, locVars, probeVars>>

handleRest == <<intVars, commVars, synVars, buildVars, geomVars, discVars,
                intdomVars, locVars, probeVars>>

locRest == <<intVars, commVars, synVars, buildVars, geomVars, discVars,
             intdomVars, handleVars, probeVars>>

probeRest == <<intVars, commVars, synVars, buildVars, geomVars, discVars,
               intdomVars, handleVars, locVars>>

layoutVars == <<synVars, buildVars, geomVars, cellVars>>

vars == <<intVars, commVars, layoutVars>>

---------------------------------------------------------------------------
\* Bounds of the model.
MaxT == 3         \* largest time (ticks) given as tfinal or as an event time
MaxEv == 2        \* largest number of staged events of one call
MaxCalls == 2     \* number of integrate calls in one behaviour

MaxLocal == 2     \* largest number of local spikes a rank hands to exchange
MaxConn == 2      \* largest number of connections in a connection table
MaxSimT == 3      \* largest tfinal of a run of the driver
MaxSpikes == 2    \* largest number of spikes generated in a run of the driver

\* Configuration of the modelled cell group.
Intdoms == {0, 1}                 \* integration domains (cells)
Mechs == <<"expsyn", "exp2syn">>  \* mechanisms_, in loop order (mech_id = index)
AllDetectors == {0, 1}            \* detector d watches a CV of intdom d
detector_intdom == [d \in AllDetectors |-> d]
thresholds == [d \in AllDetectors |-> 1]
Volts == -2..2
DtChoices == {1, 2}

Min(a, b) == IF a < b THEN a ELSE b

SetMin(S) == CHOOSE x \in S : \A y \in S : x <= y
SetMax(S) == CHOOSE x \in S : \A y \in S : y <= x

RECURSIVE SeqsUpTo(_, _)
SeqsUpTo(S, n) ==
    IF n = 0 THEN {<<>>}
    ELSE LET shorter == SeqsUpTo(S, n - 1)
         IN  shorter \cup {Append(s, x) : s \in {q \in shorter : Len(q) = n - 1}, x \in S}

\* The synapses of the group as (mech_id, intdom_index): both mechanisms on
\* cell 0, the first one on cell 1.
Targets == {<<1, 0>>, <<2, 0>>, <<1, 1>>}

\* deliverable_event: time and target handle.
Events == {e \in [time : 0..MaxT, mech_id : DOMAIN Mechs, intdom_index : Intdoms] :
              <<e.mech_id, e.intdom_index>> \in Targets}

MaxEvSpikes == 1  \* staged events of one call in the specification with detectors

\* The ranks of the distributed context, the cells (gids) with the rank and
\* the cell group that own them, and the spikes the cells can generate.
NRanks == 3
Ranks == 0..(NRanks - 1)
Gids == 0..3
gid_domain == [g \in Gids |-> IF g = 3 THEN 0 ELSE g]
gid_group == [g \in Gids |-> IF g = 3 THEN 1 ELSE 0]
Groups == {0, 1}
Spikes == [source : Gids, time : 1..2]

\* Spike sequences a rank can generate: spikes of its own cells, those of one
\* source in increasing time order.
LocalSpikeSeqs(r) ==
    {sq \in SeqsUpTo({x \in Spikes : gid_domain[x.source] = r}, MaxLocal) :
        \A i, j \in 1..Len(sq) :
            (i < j /\ sq[i].source = sq[j].source) => sq[i].time < sq[j].time}

\* The local spikes of all ranks in one epoch.
LocalInputs ==
    {loc \in [Ranks -> UNION {LocalSpikeSeqs(r) : r \in Ranks}] :
        \A r \in Ranks : loc[r] \in LocalSpikeSeqs(r)}

\* connection.hpp: the connections a table can hold.
Connections ==
    {[source |-> 0, destination |-> 0, weight |-> 1, delay |-> 2, index_on_domain |-> 0],
     [source |-> 0, destination |-> 1, weight |-> 1, delay |-> 2, index_on_domain |-> 0],
     [source |-> 0, destination |-> 0, weight |-> 2, delay |-> 2, index_on_domain |-> 0],
     [source |-> 3, destination |-> 0, weight |-> 1, delay |-> 4, index_on_domain |-> 0],
     [source |-> 1, destination |-> 0, weight |-> 1, delay |-> 3, index_on_domain |-> 1],
     [source |-> 2, destination |-> 1, weight |-> 2, delay |-> 2, index_on_domain |-> 1]}

\* The order of a connection table: partitioned by the domain of the source,
\* sorted by source inside a partition.
ConnBefore(a, b) ==
    \/ gid_domain[a.source] < gid_domain[b.source]
    \/ gid_domain[a.source] = gid_domain[b.source] /\ a.source <= b.source

ConnTables ==
    {t \in SeqsUpTo(Connections, MaxConn) :
        \A i, j \in 1..Len(t) : i < j => ConnBefore(t[i], t[j])}

\* Event lists that can be in a queue when make_event_queues is called.
QueueChoices ==
    {<<>>, <<[target |-> 0, time |-> 3, weight |-> 1]>>,
     <<[target |-> 1, time |-> 4, weight |-> 2]>>}

\* The communicator before any exchange.
GatherIdle ==
    /\ local_in = [r \in Ranks |-> <<>>]
    /\ sendbuf = [r \in Ranks |-> <<>>]
    /\ gpc = [r \in Ranks |-> "done"]
    /\ counts = [r \in Ranks |-> <<>>]
    /\ displ = [r \in Ranks |-> <<>>]
    /\ buffer = [r \in Ranks |-> <<>>]
    /\ gathered = [r \in Ranks |-> [values |-> <<>>, partition |-> <<>>]]

EventsIdle ==
    /\ connections = [r \in Ranks |-> <<>>]
    /\ gspikes = [r \in Ranks |-> [values |-> <<>>, partition |-> <<>>]]
    /\ queues = [r \in Ranks |-> [g \in Groups |-> <<>>]]
    /\ queues_before = [r \in Ranks |-> [g \in Groups |-> <<>>]]
    /\ epc = [r \in Ranks |-> "done"]

\* The cell groups of rank r.
GroupsOf(r) == {gid_group[g] : g \in {x \in Gids : gid_domain[x] = r}}

\* The two buffers of the spike store and of the event lanes.
Buffers == {0, 1}

DriverIdle ==
    /\ t_interval = 1
    /\ sim_tfinal = 0
    /\ dk = [r \in Ranks |-> 0]
    /\ dphase = [r \in Ranks |-> "finished"]
    /\ adv = [r \in Ranks |-> [g \in Groups |-> "done"]]
    /\ xch = [r \in Ranks |-> "done"]
    /\ spike_buf = [r \in Ranks |-> [b \in Buffers |-> [g \in Groups |-> <<>>]]]
    /\ event_lanes = [r \in Ranks |-> [b \in Buffers |-> [g \in Groups |-> <<>>]]]
    /\ group_time = [r \in Ranks |-> [g \in Groups |-> 0]]
    /\ placed = [r \in Ranks |-> {}]
    /\ nspikes = 0

\* No point mechanism config is being built.
NoConfig == [cv |-> <<>>, multiplicity |-> <<>>, param_values |-> <<>>,
             target |-> <<>>]

SynIdle ==
    /\ spc = "done"
    /\ coalesce_synapses = FALSE
    /\ linear = FALSE
    /\ placements = <<>>
    /\ inst_list = <<>>
    /\ cv_order = <<>>
    /\ config = NoConfig
    /\ emit_i = 0

\* No mechanism data is being built.
BuildIdle ==
    /\ bpc = "idle"
    /\ ion_species = <<>>
    /\ used = <<>>
    /\ dflt_revpot = <<>>
    /\ global_revpot = <<>>
    /\ verify_i = 0
    /\ revpot_tbl = <<>>
    /\ revpot_specified = {}
    /\ ions_done = {}
    /\ M = <<>>
    /\ build_error = ""
    /\ used_cv = <<>>
    /\ ion_support = <<>>

\* No geometry is being combined.
GeomIdle ==
    /\ apc = "idle"
    /\ cell_disc = <<>>
    /\ n_appended = 0
    /\ combined = <<>>
    /\ lhs = <<>>
    /\ rhs = <<>>

\* No cell is being discretized.
DiscIdle ==
    /\ dpc = "idle"
    /\ embedding = <<>>
    /\ D = <<>>
    /\ cv_i = 0

\* fvm_intdom is not running.
IntdomIdle ==
    /\ ipc = "idle"
    /\ gids = <<>>
    /\ gj_peers = <<>>
    /\ cell_to_intdom = <<>>
    /\ gid_to_loc = <<>>
    /\ visited = {}
    /\ intdomq = <<>>
    /\ intdom_id = 0
    /\ gid_k = 0

\* No target handles are being built.
HandleIdle ==
    /\ hpc = "idle"
    /\ cell_synapses = <<>>
    /\ gprop_coalesce = FALSE
    /\ cell_mech = <<>>
    /\ mech_data = <<>>
    /\ n_combined = 0
    /\ target_handles = <<>>
    /\ n_written = <<>>
    /\ mech_ids = <<>>
    /\ mech_id = 0

LocIdle ==
    /\ lpc = "idle"
    /\ pw_cv_offset = <<>>
    /\ cv_base = 0
    /\ loc_pos = 0
    /\ prefer = ""
    /\ loc_i = 0
    /\ loc_cv = 0

ProbeIdle ==
    /\ ppc = "idle"
    /\ rec_probes = <<>>
    /\ probe_cell = 0
    /\ probe_i = 0
    /\ probe_data = <<>>
    /\ probe_map = <<>>

CellIdle == DiscIdle /\ IntdomIdle /\ HandleIdle /\ LocIdle /\ ProbeIdle

LayoutIdle == SynIdle /\ BuildIdle /\ GeomIdle /\ CellIdle

CommIdle == GatherIdle /\ EventsIdle /\ DriverIdle

---------------------------------------------------------------------------
\* multi_event_stream (the deliverable event stream of the shared state)

\* The ids (positions in the staged vector) of the events of intdom c.
IdsOf(st, c) == SelectSeq([i \in 1..Len(st) |-> i], LAMBDA i : st[i].intdom_index = c)

\* Insert id x behind every id of s whose event is not later than x's.
InsertByTime(st, s, x) ==
    LET k == Cardinality({j \in 1..Len(s) : st[s[j]].time <= st[x].time})
    IN  SubSeq(s, 1, k) \o <<x>> \o SubSeq(s, k + 1, Len(s))

RECURSIVE StableSortByTime(_, _)
StableSortByTime(st, s) ==
    IF s = <<>> THEN <<>>
    ELSE InsertByTime(st, StableSortByTime(st, SubSeq(s, 1, Len(s) - 1)), s[Len(s)])

\* init(staged): one time-sorted stream per integration domain.
StreamInit(st) == [c \in Intdoms |-> StableSortByTime(st, IdsOf(st, c))]

\* mark_until_after(t): the mark moves over every event with time <= t.
RECURSIVE MarkUntilAfter(_, _, _, _)
MarkUntilAfter(st, s, m, t) ==
    IF m <= Len(s) /\ ~(st[s[m]].time > t)
    THEN MarkUntilAfter(st, s, m + 1, t)
    ELSE m

\* drop_marked_events(): the span begins where the mark is.
DropMarked(m) == m

\* event_time_if_before(t_until): the time of the first pending event when
\* that is earlier than t_until, otherwise t_until.
EventTimeIfBefore(st, s, b, t_until) ==
    IF b <= Len(s) /\ t_until > st[s[b]].time THEN st[s[b]].time ELSE t_until

\* update_time_to(dt_step, tmax)
UpdateTimeTo(t, dt_step, tmax) == Min(t + dt_step, tmax)

\* time_bounds()
TimeBounds(tm) == <<SetMin({tm[c] : c \in Intdoms}), SetMax({tm[c] : c \in Intdoms})>>

\* marked_events(): the ids in [span_begin, mark) of stream s.
MarkedEvents(s, b, m) == SubSeq(s, b, m - 1)

---------------------------------------------------------------------------
\* fvm_lowered_cell_impl

wr_max == 1

dt_steps(t0, t1, dt) == IF t0 >= t1 THEN 0 ELSE 1 + ((t1 - t0) \div dt)

\* mechanism::deliver_events: mechanism m applies the marked events that
\* carry its mech_id, stream by stream.
RECURSIVE DeliverTo(_, _, _, _, _, _)
DeliverTo(m, st, streams, b, mk, cs) ==
    IF cs = {} THEN <<>>
    ELSE LET c == SetMin(cs)
             mine == SelectSeq(MarkedEvents(streams[c], b[c], mk[c]),
                               LAMBDA i : st[i].mech_id = m)
         IN  mine \o DeliverTo(m, st, streams, b, mk, cs \ {c})

\* threshold_watcher::test for the detectors ds, with the arrays tb and ta
\* as time_before and time_after (the fields call and step record the call
\* and the step that made the test).
\* Crossing time: lerp(t_before, t_after, lerp_ratio(v_prev, v, thresh)).
CrossingTime(t0, t1, v0, v1, th) ==
    [num |-> t0 * (v1 - v0) + (t1 - t0) * (th - v0), den |-> v1 - v0]

Rising(d) == ~is_crossed[d] /\ voltage[d] >= thresholds[d]

RECURSIVE TestCrossings(_, _, _)
TestCrossings(ds, tb, ta) ==
    IF ds = {} THEN <<>>
    ELSE LET d == SetMin(ds)
             c == detector_intdom[d]
         IN  (IF Rising(d)
              THEN <<[index |-> d,
                      time |-> CrossingTime(tb[c], ta[c], v_prev[d],
                                            voltage[d], thresholds[d]),
                      call |-> ncall,
                      step |-> step_no]>>
              ELSE <<>>) \o TestCrossings(ds \ {d}, tb, ta)

\* The flag that stays set once the voltage has reached the threshold.
IsCrossedAfterTest_Latched(d) ==
    is_crossed[d] \/ voltage[d] >= thresholds[d]

\* threshold_watcher::test: the flag of detector d after the test.
IsCrossedAfterTest(d) ==
    IF ~is_crossed[d] THEN voltage[d] >= thresholds[d]
    ELSE ~(voltage[d] < thresholds[d])

\* threshold_watcher::clear_crossings
ClearCrossings(cr) == <<>>

\* lines 233-279: the copies integrate takes before the outer loop; the
\* event streams are copied after their init (line 220), the threshold
\* watcher after clear_crossings (line 212).
NoSaved == <<>>

SavedCopies(st, cr, tf, dt) ==
    [time |-> time, time_to |-> time_to, dt_intdom |-> dt_intdom,
     voltage |-> voltage, ev_stream |-> StreamInit(st),
     is_crossed |-> is_crossed, v_prev |-> v_prev, crossings |-> cr,
     tmin_reset |-> tmin_, tfinal_reset |-> tf, dt_max_reset |-> dt]

\* No exception has been thrown.
NoError == <<>>

\* The state after initialize for a cell group with the detectors dets and
\* the membrane voltage limit L (line 678).
IntInitL(dets, L) ==
    /\ pc = "idle"
    /\ tmin_ = 0
    /\ tfinal = 0
    /\ dt_max = 1
    /\ remaining_steps = 0
    /\ wr_it = 0
    /\ time = [c \in Intdoms |-> 0]
    /\ time_to = [c \in Intdoms |-> 0]
    /\ dt_intdom = [c \in Intdoms |-> 0]
    /\ staged = <<>>
    /\ ev_stream = [c \in Intdoms |-> <<>>]
    /\ span_begin = [c \in Intdoms |-> 1]
    /\ mark = [c \in Intdoms |-> 1]
    /\ mech_i = 1
    /\ applied = [m \in DOMAIN Mechs |-> <<>>]
    /\ detectors = dets
    /\ voltage = [d \in dets |-> 0]
    /\ v_prev = [d \in dets |-> 0]
    /\ is_crossed = [d \in dets |-> FALSE]
    /\ crossings = <<>>
    /\ ncall = 0
    /\ step_no = 0
    /\ t_call = 0
    /\ returned = 0
    /\ phases = <<>>
    /\ raised = NoError
    /\ check_voltage_mV_ = L
    /\ saved = NoSaved
    /\ wr_count = 0
    /\ v_before = [d \in dets |-> 0]

\* The limit is 0 unless the global properties set it (line 110).
IntInit(dets) == IntInitL(dets, 0)

\* Integrate without the clear_crossings of line 212.
Integrate_NoClear(tf, dt, st) ==
    /\ pc = "idle"
    /\ ncall < MaxCalls
    /\ tfinal' = tf
    /\ dt_max' = dt
    /\ crossings' = crossings
    /\ staged' = st
    /\ ev_stream' = StreamInit(st)
    /\ span_begin' = [c \in Intdoms |-> 1]
    /\ mark' = [c \in Intdoms |-> 1]
    /\ remaining_steps' = dt_steps(tmin_, tf, dt)
    /\ wr_it' = 0
    /\ applied' = [m \in DOMAIN Mechs |-> <<>>]
    /\ step_no' = 0
    /\ phases' = <<>>
    /\ t_call' = TimeBounds(time)[2]
    /\ saved' = SavedCopies(st, crossings', tf, dt)
    /\ wr_count' = IF 0 < wr_max THEN 1 ELSE 0
    /\ pc' = IF 0 < wr_max
             THEN (IF remaining_steps' > 0 THEN "step" ELSE "wr_end")
             ELSE "finish"
    /\ UNCHANGED <<commVars, layoutVars, detectors, raised, check_voltage_mV_, v_before, returned, tmin_, time, time_to, dt_intdom, mech_i, voltage, v_prev,
                   is_crossed, ncall>>

\* integrate, lines 208-224 and 297-311: setup up to the head of the step loop.
Integrate(tf, dt, st) ==
    /\ pc = "idle"
    /\ ncall < MaxCalls
    /\ tfinal' = tf
    /\ dt_max' = dt
    /\ crossings' = ClearCrossings(crossings)
    /\ staged' = st
    /\ ev_stream' = StreamInit(st)
    /\ span_begin' = [c \in Intdoms |-> 1]
    /\ mark' = [c \in Intdoms |-> 1]
    /\ remaining_steps' = dt_steps(tmin_, tf, dt)
    /\ wr_it' = 0
    /\ applied' = [m \in DOMAIN Mechs |-> <<>>]
    /\ step_no' = 0
    /\ phases' = <<>>
    /\ t_call' = TimeBounds(time)[2]
    /\ saved' = SavedCopies(st, crossings', tf, dt)
    /\ wr_count' = IF 0 < wr_max THEN 1 ELSE 0
    /\ pc' = IF 0 < wr_max
             THEN (IF remaining_steps' > 0 THEN "step" ELSE "wr_end")
             ELSE "finish"
    /\ UNCHANGED <<commVars, layoutVars, detectors, raised, check_voltage_mV_, v_before, returned, tmin_, time, time_to, dt_intdom, mech_i, voltage, v_prev,
                   is_crossed, ncall>>

\* An operation of the step that is not made per mechanism, and an
\* operation made for every mechanism in the order of mechanisms_.
Ph(op) == <<op, 0>>
PerMech(op) == [m \in DOMAIN Mechs |-> <<op, m>>]

\* lines 314-326: update_current of the reversal potential mechanisms,
\* mark_until_after, zero_currents.
MarkPhases ==
    <<Ph("revpot_update_current"), Ph("mark_until_after"), Ph("zero_currents")>>

\* lines 328-427, for mechanism m: deliver_events (line 335), update_current
\* (line 416).
CurrentPhases(m) == <<<<"deliver_events", m>>, <<"update_current", m>>>>

\* lines 434-436
TimePhases ==
    <<Ph("update_time_to"), Ph("event_time_if_before"), Ph("set_dt")>>

\* update_ion_state with the concentrations reset after update_ions.
update_ion_state_ResetLast ==
    PerMech("update_ions") \o <<Ph("ions_init_concentration")>>

\* update_ion_state, lines 575-581
update_ion_state ==
    <<Ph("ions_init_concentration")>> \o PerMech("update_ions")

\* MarkEvents with the marks taken up to state_->time_to instead of state_->time.
MarkEvents_TimeTo ==
    /\ pc = "step"
    /\ mark' = [c \in Intdoms |->
                   MarkUntilAfter(staged, ev_stream[c], mark[c], time_to[c])]
    /\ step_no' = step_no + 1
    /\ mech_i' = 1
    /\ phases' = MarkPhases
    /\ pc' = "deliver"
    /\ UNCHANGED <<commVars, layoutVars, detectors, raised, check_voltage_mV_, saved, wr_count, v_before, returned, tmin_, tfinal, dt_max, remaining_steps, wr_it, time, time_to,
                   dt_intdom, staged, ev_stream, span_begin, applied, voltage,
                   v_prev, is_crossed, crossings, ncall, t_call>>

\* lines 312-326: reversal potentials, mark events, zero currents.
MarkEvents ==
    /\ pc = "step"
    /\ mark' = [c \in Intdoms |->
                   MarkUntilAfter(staged, ev_stream[c], mark[c], time[c])]
    /\ step_no' = step_no + 1
    /\ mech_i' = 1
    /\ phases' = MarkPhases
    /\ pc' = "deliver"
    /\ UNCHANGED <<commVars, layoutVars, detectors, raised, check_voltage_mV_, saved, wr_count, v_before, returned, tmin_, tfinal, dt_max, remaining_steps, wr_it, time, time_to,
                   dt_intdom, staged, ev_stream, span_begin, applied, voltage,
                   v_prev, is_crossed, crossings, ncall, t_call>>

\* lines 328-427: one pass of the loop body, deliver_events then update_current.
DeliverEvents ==
    /\ pc = "deliver"
    /\ applied' = [applied EXCEPT ![mech_i] =
                      @ \o [k \in 1..Len(DeliverTo(mech_i, staged, ev_stream,
                                                   span_begin, mark, Intdoms)) |->
                              [id |-> DeliverTo(mech_i, staged, ev_stream,
                                                span_begin, mark, Intdoms)[k],
                               step |-> step_no]]]
    /\ mech_i' = mech_i + 1
    /\ phases' = phases \o CurrentPhases(mech_i)
    /\ pc' = IF mech_i = Len(Mechs) THEN "drop" ELSE "deliver"
    /\ UNCHANGED <<commVars, layoutVars, detectors, raised, check_voltage_mV_, saved, wr_count, v_before, returned, tmin_, tfinal, dt_max, remaining_steps, wr_it, time, time_to,
                   dt_intdom, staged, ev_stream, span_begin, mark, voltage,
                   v_prev, is_crossed, crossings, ncall, step_no, t_call>>

\* The step without drop_marked_events: the span keeps its begin.
DropMarkedEvents_Skip ==
    /\ pc = "drop"
    /\ phases' = phases
    /\ span_begin' = span_begin
    /\ pc' = "update_time"
    /\ UNCHANGED <<commVars, layoutVars, detectors, raised, check_voltage_mV_, saved, wr_count, v_before, returned, tmin_, tfinal, dt_max, remaining_steps, wr_it, time, time_to,
                   dt_intdom, staged, ev_stream, mark, mech_i, applied, voltage,
                   v_prev, is_crossed, crossings, ncall, step_no, t_call>>

\* line 430
DropMarkedEvents ==
    /\ pc = "drop"
    /\ phases' = Append(phases, Ph("drop_marked_events"))
    /\ span_begin' = [c \in Intdoms |-> DropMarked(mark[c])]
    /\ pc' = "update_time"
    /\ UNCHANGED <<commVars, layoutVars, detectors, raised, check_voltage_mV_, saved, wr_count, v_before, returned, tmin_, tfinal, dt_max, remaining_steps, wr_it, time, time_to,
                   dt_intdom, staged, ev_stream, mark, mech_i, applied, voltage,
                   v_prev, is_crossed, crossings, ncall, step_no, t_call>>

\* StepEnd with the arguments of update_time_to exchanged.
StepEnd_Swapped(c) ==
    EventTimeIfBefore(staged, ev_stream[c], span_begin[c],
                      UpdateTimeTo(time[c], tfinal, dt_max))

\* The end of the step of intdom c (lines 434-435).
StepEnd(c) ==
    EventTimeIfBefore(staged, ev_stream[c], span_begin[c],
                      UpdateTimeTo(time[c], dt_max, tfinal))

\* lines 434-436: update_time_to, event_time_if_before, set_dt.
UpdateTime ==
    /\ pc = "update_time"
    /\ phases' = phases \o TimePhases
    /\ time_to' = [c \in Intdoms |-> StepEnd(c)]
    /\ dt_intdom' = [c \in Intdoms |-> time_to'[c] - time[c]]
    /\ pc' = "stimuli"
    /\ UNCHANGED <<commVars, layoutVars, detectors, raised, check_voltage_mV_, saved, wr_count, v_before, returned, tmin_, tfinal, dt_max, remaining_steps, wr_it, time, staged,
                   ev_stream, span_begin, mark, mech_i, applied, voltage, v_prev,
                   is_crossed, crossings, ncall, step_no, t_call>>

\* A phase of the step that changes nothing else the model keeps: the
\* operations done are made in order.
Phase(from, to, done) ==
    /\ pc = from
    /\ phases' = phases \o done
    /\ pc' = to
    /\ UNCHANGED <<commVars, layoutVars, detectors, raised, check_voltage_mV_, saved, wr_count, v_before, returned, tmin_, tfinal, dt_max, remaining_steps, wr_it, time, time_to,
                   dt_intdom, staged, ev_stream, span_begin, mark, mech_i,
                   applied, voltage, v_prev, is_crossed, crossings, ncall,
                   step_no, t_call>>

\* line 445
AddStimulusCurrent ==
    Phase("stimuli", "samples", <<Ph("add_stimulus_current")>>)

\* lines 451-453
TakeSamples == Phase("samples", "solve", <<Ph("take_samples")>>)

\* lines 459-462: the solve writes the new voltage; an intdom whose dt is
\* not positive keeps its voltage.
MatrixSolve ==
    /\ pc = "solve"
    /\ \E v \in [detectors -> Volts] :
          /\ \A d \in detectors :
                ~(dt_intdom[detector_intdom[d]] > 0) => v[d] = voltage[d]
          /\ voltage' = v
    /\ v_before' = voltage
    /\ phases' = phases \o <<Ph("assemble"), Ph("solve")>>
    /\ pc' = "update_state"
    /\ UNCHANGED <<commVars, layoutVars, detectors, raised, check_voltage_mV_, saved, wr_count, returned, tmin_, tfinal, dt_max, remaining_steps, wr_it, time, time_to,
                   dt_intdom, staged, ev_stream, span_begin, mark, mech_i,
                   applied, v_prev, is_crossed, crossings, ncall, step_no, t_call>>

\* lines 467-469
UpdateState == Phase("update_state", "ions", PerMech("update_state"))

\* line 474 (update_ion_state, lines 575-581)
UpdateIonState == Phase("ions", "threshold", update_ion_state)

\* The threshold test made after the swap of time and time_to.
ThresholdTest_AfterSwap ==
    /\ pc = "threshold"
    /\ crossings' = crossings \o TestCrossings(detectors, time_to, time)
    /\ is_crossed' = [d \in detectors |-> IsCrossedAfterTest(d)]
    /\ v_prev' = voltage
    /\ phases' = Append(phases, Ph("threshold_test"))
    /\ pc' = "post_event"
    /\ UNCHANGED <<commVars, layoutVars, detectors, raised, check_voltage_mV_, saved, wr_count, v_before, returned, tmin_, tfinal, dt_max, remaining_steps, wr_it, time, time_to,
                   dt_intdom, staged, ev_stream, span_begin, mark, mech_i,
                   applied, voltage, ncall, step_no, t_call>>

\* line 480: threshold_watcher_.test; the watcher reads state_->time as
\* time_before and state_->time_to as time_after (line 887).
ThresholdTest ==
    /\ pc = "threshold"
    /\ crossings' = crossings \o TestCrossings(detectors, time, time_to)
    /\ is_crossed' = [d \in detectors |-> IsCrossedAfterTest(d)]
    /\ v_prev' = voltage
    /\ phases' = Append(phases, Ph("threshold_test"))
    /\ pc' = "post_event"
    /\ UNCHANGED <<commVars, layoutVars, detectors, raised, check_voltage_mV_, saved, wr_count, v_before, returned, tmin_, tfinal, dt_max, remaining_steps, wr_it, time, time_to,
                   dt_intdom, staged, ev_stream, span_begin, mark, mech_i,
                   applied, voltage, ncall, step_no, t_call>>

\* lines 484-488
PostEvent == Phase("post_event", "swap", <<Ph("post_event")>>)

\* lines 491-492: std::swap(state_->time_to, state_->time)
SwapTime ==
    /\ pc = "swap"
    /\ time' = time_to
    /\ time_to' = time
    /\ phases' = Append(phases, Ph("swap_time"))
    /\ pc' = "check_voltage"
    /\ UNCHANGED <<commVars, layoutVars, detectors, raised, check_voltage_mV_, saved, wr_count, v_before, returned, tmin_, tfinal, dt_max, remaining_steps, wr_it, dt_intdom,
                   staged, ev_stream, span_begin, mark, mech_i, applied, voltage,
                   v_prev, is_crossed, crossings, ncall, step_no, t_call>>

\* shared_state::voltage_bounds: the least and the greatest voltage.
voltage_bounds ==
    [first |-> SetMin({voltage[d] : d \in detectors}),
     second |-> SetMax({voltage[d] : d \in detectors})]

\* The test of assert_voltage_bounded with strict comparisons.
VoltageBounded_Strict(bound) ==
    voltage_bounds.first > -bound /\ voltage_bounds.second < bound

\* assert_voltage_bounded, lines 585-589: the test that lets it return.
VoltageBounded(bound) ==
    voltage_bounds.first >= -bound /\ voltage_bounds.second <= bound

\* assert_voltage_bounded, lines 590-593: the exception it throws.
RangeCheckFailure(bound) ==
    [t_min |-> TimeBounds(time)[1],
     t_max |-> TimeBounds(time)[2],
     value |-> IF voltage_bounds.first < -bound
               THEN voltage_bounds.first ELSE voltage_bounds.second,
     call |-> ncall,
     step |-> step_no]

\* lines 496-500: the check of the voltage, made when the limit is positive;
\* the exception leaves integrate.
CheckVoltage ==
    /\ pc = "check_voltage"
    /\ phases' = IF check_voltage_mV_ > 0
                 THEN Append(phases, Ph("assert_voltage_bounded"))
                 ELSE phases
    /\ IF check_voltage_mV_ > 0 /\ ~VoltageBounded(check_voltage_mV_)
       THEN /\ raised' = RangeCheckFailure(check_voltage_mV_)
            /\ pc' = "failed"
       ELSE /\ pc' = "steps_update"
            /\ UNCHANGED raised
    /\ UNCHANGED <<commVars, layoutVars, detectors, check_voltage_mV_, saved, wr_count, v_before, returned, tmin_, tfinal, dt_max, remaining_steps, wr_it, time, time_to,
                   dt_intdom, staged, ev_stream, span_begin, mark, mech_i,
                   applied, voltage, v_prev, is_crossed, crossings, ncall,
                   step_no, t_call>>

\* The count of remaining steps without the recomputation from the least
\* cell time.
StepsUpdate_NoRecompute ==
    /\ pc = "steps_update"
    /\ remaining_steps' = remaining_steps - 1
    /\ UNCHANGED tmin_
    /\ pc' = IF remaining_steps' > 0 THEN "step" ELSE "wr_end"
    /\ UNCHANGED <<commVars, layoutVars, detectors, phases, raised, check_voltage_mV_, saved, wr_count, v_before, returned, tfinal, dt_max, wr_it, time, time_to, dt_intdom, staged,
                   ev_stream, span_begin, mark, mech_i, applied, voltage, v_prev,
                   is_crossed, crossings, ncall, step_no, t_call>>

\* lines 505-508
StepsUpdate ==
    /\ pc = "steps_update"
    /\ IF remaining_steps - 1 = 0
       THEN /\ tmin_' = TimeBounds(time)[1]
            /\ remaining_steps' = dt_steps(tmin_', tfinal, dt_max)
       ELSE /\ remaining_steps' = remaining_steps - 1
            /\ UNCHANGED tmin_
    /\ pc' = IF remaining_steps' > 0 THEN "step" ELSE "wr_end"
    /\ UNCHANGED <<commVars, layoutVars, detectors, phases, raised, check_voltage_mV_, saved, wr_count, v_before, returned, tfinal, dt_max, wr_it, time, time_to, dt_intdom, staged,
                   ev_stream, span_begin, mark, mech_i, applied, voltage, v_prev,
                   is_crossed, crossings, ncall, step_no, t_call>>

\* line 306: max_err is set to 0 in every outer iteration and never changed.
max_err == 0

\* line 298: eps = 1e-7, here the smallest positive voltage difference.
eps == 1

\* line 513: the break condition of the waveform-relaxation loop.
WrBreak == (wr_it > 1 /\ max_err < eps) \/ wr_max = 1 \/ wr_it = wr_max

\* The end of an outer iteration: leave the loop if brk; otherwise restore
\* the copies (lines 518-559), increment wr_it and, if again, begin the next
\* outer iteration (lines 300-309).
WrEndWith(brk, again) ==
    /\ pc = "wr_end"
    /\ phases' = <<>>
    /\ IF brk
       THEN /\ pc' = "finish"
            /\ UNCHANGED <<wr_it, wr_count, remaining_steps, time, time_to,
                           dt_intdom, voltage, ev_stream, span_begin, mark,
                           applied, is_crossed, v_prev, crossings>>
       ELSE /\ wr_it' = wr_it + 1
            /\ time' = saved.time
            /\ time_to' = saved.time_to
            /\ dt_intdom' = saved.dt_intdom
            /\ voltage' = saved.voltage
            /\ ev_stream' = saved.ev_stream
            /\ span_begin' = [c \in Intdoms |-> 1]
            /\ mark' = [c \in Intdoms |-> 1]
            /\ applied' = [m \in DOMAIN Mechs |-> <<>>]
            /\ IF again
               THEN /\ wr_count' = wr_count + 1
                    /\ remaining_steps' = dt_steps(saved.tmin_reset,
                                                   saved.tfinal_reset,
                                                   saved.dt_max_reset)
                    /\ is_crossed' = saved.is_crossed
                    /\ v_prev' = saved.v_prev
                    /\ crossings' = saved.crossings
                    /\ pc' = IF remaining_steps' > 0 THEN "step" ELSE "wr_end"
               ELSE /\ pc' = "finish"
                    /\ UNCHANGED <<wr_count, remaining_steps, is_crossed,
                                   v_prev, crossings>>
    /\ UNCHANGED <<commVars, layoutVars, detectors, raised, check_voltage_mV_, saved, v_before, returned, tmin_, tfinal, dt_max,
                   staged, mech_i, ncall, step_no, t_call>>

\* The end of an outer iteration that never breaks and tests wr_it <= wr_max.
WrEnd_PastCap == WrEndWith(FALSE, wr_it + 1 <= wr_max)

\* lines 512-559 and the loop head, lines 299-309
WrEnd == WrEndWith(WrBreak, wr_it + 1 < wr_max)

\* lines 562-573: set_tmin(tfinal) and the return of the crossings.
Finish ==
    /\ pc = "finish"
    /\ tmin_' = tfinal
    /\ ncall' = ncall + 1
    /\ returned' = returned + Len(crossings)
    /\ saved' = NoSaved
    /\ phases' = <<>>
    /\ pc' = "idle"
    /\ UNCHANGED <<commVars, layoutVars, detectors, raised, check_voltage_mV_, wr_count, v_before, tfinal, dt_max, remaining_steps, wr_it, time, time_to,
                   dt_intdom, staged, ev_stream, span_begin, mark, mech_i,
                   applied, voltage, v_prev, is_crossed, crossings, step_no,
                   t_call>>

\* The steps of a running call.
StepNext ==
    \/ MarkEvents
    \/ DeliverEvents
    \/ DropMarkedEvents
    \/ UpdateTime
    \/ AddStimulusCurrent
    \/ TakeSamples
    \/ MatrixSolve
    \/ UpdateState
    \/ UpdateIonState
    \/ ThresholdTest
    \/ PostEvent
    \/ SwapTime
    \/ CheckVoltage
    \/ StepsUpdate
    \/ WrEnd
    \/ Finish

\* A cell group without detectors, called with up to MaxEv staged events.
Init == IntInit({}) /\ CommIdle /\ LayoutIdle

Next ==
    \/ \E tf \in 0..MaxT, dt \in DtChoices, st \in SeqsUpTo(Events, MaxEv) :
          Integrate(tf, dt, st)
    \/ StepNext

Spec == Init /\ [][Next]_vars

\* A cell group with a detector, called with up to MaxEvSpikes staged events.
InitSpikes == IntInit({1}) /\ CommIdle /\ LayoutIdle

NextSpikes ==
    \/ \E tf \in 0..MaxT, dt \in DtChoices, st \in SeqsUpTo(Events, MaxEvSpikes) :
          Integrate(tf, dt, st)
    \/ StepNext

SpecSpikes == InitSpikes /\ [][NextSpikes]_vars

\* The calls of Spec, where a call that has begun runs on: integrate is
\* sequential code, so a step that can be taken is taken.
SpecRun == Init /\ [][Next]_vars /\ WF_vars(StepNext)

\* Cell groups with two detector CVs and a membrane voltage limit, called
\* without events.
Limits == {0, 1}

InitCheck == \E L \in Limits : IntInitL(AllDetectors, L) /\ CommIdle /\ LayoutIdle

NextCheck ==
    \/ \E tf \in 0..MaxT, dt \in DtChoices : Integrate(tf, dt, <<>>)
    \/ StepNext

SpecCheck == InitCheck /\ [][NextCheck]_vars

---------------------------------------------------------------------------
\* Spike exchange: communicator::exchange as one all-gather-v of the local
\* spikes, after example/inter/mpiutil.hpp gather_spikes.

\* spike.hpp: ordering of spikes, lexicographic on (source, time).
SpikeLess(a, b) ==
    \/ a.source < b.source
    \/ a.source = b.source /\ a.time < b.time

\* A default-constructed spike (spike.hpp: source = {}, time = -1).
DefaultSpike == [source |-> 0, time |-> -1]

\* sizeof(arb::spike): a cell_member (two 32 bit ids) and a double.
sizeof_spike == 16

\* Stable insertion of spike x into the sequence s, sorted by source.
InsertBySource(s, x) ==
    LET k == Cardinality({i \in 1..Len(s) : s[i].source <= x.source})
    IN  SubSeq(s, 1, k) \o <<x>> \o SubSeq(s, k + 1, Len(s))

\* exchange sorts the local spikes by source before the gather.
RECURSIVE SortBySource(_)
SortBySource(s) ==
    IF s = <<>> THEN <<>>
    ELSE InsertBySource(SortBySource(SubSeq(s, 1, Len(s) - 1)), s[Len(s)])

\* The local count in elements instead of bytes.
NLocal_Elements(values) == Len(values)

\* mpiutil.hpp line 14: the local count, in bytes.
NLocal(values) == Len(values) * sizeof_spike

\* displ[i+1] = counts[i], without the running sum.
Displ_NoSum(cnt) ==
    [i \in 1..(Len(cnt) + 1) |-> IF i = 1 THEN 0 ELSE cnt[i - 1]]

\* mpiutil.hpp lines 16-19: displ[0] = 0, displ[i+1] = displ[i] + counts[i].
Displ(cnt) ==
    LET RECURSIVE Pre(_)
        Pre(i) == IF i = 1 THEN 0 ELSE Pre(i - 1) + cnt[i - 1]
    IN  [i \in 1..(Len(cnt) + 1) |-> Pre(i)]

\* mpiutil.hpp line 21: the receive buffer, displ.back()/sizeof(spike)
\* default-constructed spikes.
BufferOf(dsp) == [k \in 1..(dsp[Len(dsp)] \div sizeof_spike) |-> DefaultSpike]

\* MPI_Allgatherv (lines 22-25) on the rank whose counts and displ are cnt and
\* dsp: the bytes sent by rank i are stored at byte offset dsp[i] of the receive
\* buffer, cnt[i] of them; where blocks overlap the higher rank's bytes stay,
\* and elements no block covers keep their value.
Allgatherv(send, buf, cnt, dsp) ==
    LET from(k) == {i \in Ranks :
                       /\ dsp[i + 1] \div sizeof_spike < k
                       /\ k <= (dsp[i + 1] + cnt[i + 1]) \div sizeof_spike
                       /\ k - dsp[i + 1] \div sizeof_spike <= Len(send[i])}
    IN  [k \in 1..Len(buf) |->
            IF from(k) = {} THEN buf[k]
            ELSE LET i == SetMax(from(k))
                 IN  send[i][k - dsp[i + 1] \div sizeof_spike]]

\* The origin partition of a gathered vector, in elements.
PartitionOf(dsp) == [i \in 1..Len(dsp) |-> dsp[i] \div sizeof_spike]

GatherInit(loc) ==
    /\ local_in = loc
    /\ sendbuf = [r \in Ranks |-> <<>>]
    /\ gpc = [r \in Ranks |-> "exchange"]
    /\ counts = [r \in Ranks |-> <<>>]
    /\ displ = [r \in Ranks |-> <<>>]
    /\ buffer = [r \in Ranks |-> <<>>]
    /\ gathered = [r \in Ranks |-> [values |-> <<>>, partition |-> <<>>]]

\* exchange on rank r: sort the local spikes by source, enter the gather.
ExchangeSort(r) ==
    /\ gpc[r] = "exchange"
    /\ sendbuf' = [sendbuf EXCEPT ![r] = SortBySource(local_in[r])]
    /\ gpc' = [gpc EXCEPT ![r] = "allgather"]
    /\ UNCHANGED <<intVars, layoutVars, eventVars, driverVars, local_in, counts, displ, buffer, gathered>>

\* Rank r has entered MPI_Allgather (its n_local is available to the others).
InAllgather(r) == gpc[r] \in {"allgather", "displ", "allgatherv", "result", "done"}

\* Rank r has entered MPI_Allgatherv.
InAllgatherv(r) == gpc[r] \in {"allgatherv", "result", "done"}

\* mpiutil.hpp lines 13-15: MPI_Allgather of the local byte counts; it returns
\* on rank r once every rank has entered it.
AllgatherCounts(r) ==
    /\ gpc[r] = "allgather"
    /\ \A q \in Ranks : InAllgather(q)
    /\ counts' = [counts EXCEPT ![r] = [i \in 1..NRanks |-> NLocal(sendbuf[i - 1])]]
    /\ gpc' = [gpc EXCEPT ![r] = "displ"]
    /\ UNCHANGED <<intVars, layoutVars, eventVars, driverVars, local_in, sendbuf, displ, buffer, gathered>>

\* mpiutil.hpp lines 16-21: the displacements and the receive buffer.
ComputeDispl(r) ==
    /\ gpc[r] = "displ"
    /\ displ' = [displ EXCEPT ![r] = Displ(counts[r])]
    /\ buffer' = [buffer EXCEPT ![r] = BufferOf(displ'[r])]
    /\ gpc' = [gpc EXCEPT ![r] = "allgatherv"]
    /\ UNCHANGED <<intVars, layoutVars, eventVars, driverVars, local_in, sendbuf, counts, gathered>>

\* mpiutil.hpp lines 22-25: MPI_Allgatherv; it returns on rank r once every rank
\* has entered it.
AllgathervSpikes(r) ==
    /\ gpc[r] = "allgatherv"
    /\ \A q \in Ranks : InAllgatherv(q)
    /\ buffer' = [buffer EXCEPT ![r] = Allgatherv(sendbuf, buffer[r], counts[r], displ[r])]
    /\ gpc' = [gpc EXCEPT ![r] = "result"]
    /\ UNCHANGED <<intVars, layoutVars, eventVars, driverVars, local_in, sendbuf, counts, displ, gathered>>

\* The gathered vector returned on rank r: the buffer (line 27) with the
\* partition recovered from the displacements.
GatheredVector(r) ==
    /\ gpc[r] = "result"
    /\ gathered' = [gathered EXCEPT ![r] =
                        [values |-> buffer[r], partition |-> PartitionOf(displ[r])]]
    /\ gpc' = [gpc EXCEPT ![r] = "done"]
    /\ UNCHANGED <<intVars, layoutVars, eventVars, driverVars, local_in, sendbuf, counts, displ, buffer>>

\* Every rank hands up to MaxLocal spikes to one exchange.
InitGather ==
    /\ IntInit({})
    /\ LayoutIdle
    /\ EventsIdle
    /\ DriverIdle
    /\ \E loc \in LocalInputs : GatherInit(loc)

NextGather ==
    \E r \in Ranks :
        \/ ExchangeSort(r)
        \/ AllgatherCounts(r)
        \/ ComputeDispl(r)
        \/ AllgathervSpikes(r)
        \/ GatheredVector(r)

SpecGather == InitGather /\ [][NextGather]_vars

---------------------------------------------------------------------------
\* Event generation: communicator::make_event_queues.

\* make_event with the weight and the delay of the connection exchanged.
make_event_Swapped(c, sp) ==
    [target |-> c.destination, time |-> sp.time + c.weight, weight |-> c.delay]

\* make_event without the delay of the connection.
make_event_NoDelay(c, sp) ==
    [target |-> c.destination, time |-> sp.time, weight |-> c.weight]

\* connection.hpp lines 17-20.
make_event(c, sp) ==
    [target |-> c.destination, time |-> sp.time + c.delay, weight |-> c.weight]

\* The order of spike events: by time, then target, then weight.
EventLess(a, b) ==
    \/ a.time < b.time
    \/ a.time = b.time /\ a.target < b.target
    \/ a.time = b.time /\ a.target = b.target /\ a.weight < b.weight

\* Stable insertion of x into a list sorted by time only.
InsertEvent_ByTime(s, x) ==
    LET k == Cardinality({i \in 1..Len(s) : s[i].time <= x.time})
    IN  SubSeq(s, 1, k) \o <<x>> \o SubSeq(s, k + 1, Len(s))

\* Stable insertion of x into the sorted event list s.
InsertEvent(s, x) ==
    LET k == Cardinality({i \in 1..Len(s) : ~EventLess(x, s[i])})
    IN  SubSeq(s, 1, k) \o <<x>> \o SubSeq(s, k + 1, Len(s))

\* The sort of an event list.
RECURSIVE SortEvents(_)
SortEvents(s) ==
    IF s = <<>> THEN <<>>
    ELSE InsertEvent(SortEvents(SubSeq(s, 1, Len(s) - 1)), s[Len(s)])

\* The rank whose slice of the gathered vector gv holds position i.
SliceOf(gv, i) ==
    CHOOSE d \in Ranks : gv.partition[d + 1] < i /\ i <= gv.partition[d + 2]

\* The events spike sp of the slice of domain d makes on the connections of
\* table cons from j on, for the queue of group g: the connections of the
\* partition of d with the source of the spike.
RECURSIVE EventsOfSpike(_, _, _, _, _)
EventsOfSpike(sp, d, cons, g, j) ==
    IF j > Len(cons) THEN <<>>
    ELSE (IF /\ gid_domain[cons[j].source] = d
             /\ cons[j].source = sp.source
             /\ cons[j].index_on_domain = g
          THEN <<make_event(cons[j], sp)>> ELSE <<>>)
         \o EventsOfSpike(sp, d, cons, g, j + 1)

\* The events the spikes of gv from position i on make for group g.
RECURSIVE GeneratedEvents(_, _, _, _)
GeneratedEvents(gv, cons, g, i) ==
    IF i > Len(gv.values) THEN <<>>
    ELSE EventsOfSpike(gv.values[i], SliceOf(gv, i), cons, g, 1)
         \o GeneratedEvents(gv, cons, g, i + 1)

\* make_event_queues: the generated events are appended to the queues of
\* their groups and every queue is sorted.
MakeEventQueuesOf(gv, cons, qs) ==
    [g \in Groups |-> SortEvents(qs[g] \o GeneratedEvents(gv, cons, g, 1))]

\* The gathered vector of the sorted contributions loc of the ranks.
GatherAllWithPartition(loc) ==
    LET send == [r \in Ranks |-> SortBySource(loc[r])]
        cnt == [i \in 1..NRanks |-> NLocal(send[i - 1])]
        dsp == Displ(cnt)
    IN  [values |-> Allgatherv(send, BufferOf(dsp), cnt, dsp),
         partition |-> PartitionOf(dsp)]

\* The gathered vectors an exchange can return.
GlobalSpikeVectors == {GatherAllWithPartition(loc) : loc \in LocalInputs}

\* communicator.hpp lines 58-69.
MakeEventQueues(r) ==
    /\ epc[r] = "ready"
    /\ queues_before' = [queues_before EXCEPT ![r] = queues[r]]
    /\ queues' = [queues EXCEPT ![r] =
                     MakeEventQueuesOf(gspikes[r], connections[r], queues[r])]
    /\ epc' = [epc EXCEPT ![r] = "done"]
    /\ UNCHANGED <<intVars, layoutVars, gatherVars, driverVars, connections, gspikes>>

\* The driver hands the next global spikes to make_event_queues.
NextSpikesIn(r) ==
    /\ epc[r] = "done"
    /\ gspikes[r].values = <<>>
    /\ \E gv \in GlobalSpikeVectors : gspikes' = [gspikes EXCEPT ![r] = gv]
    /\ epc' = [epc EXCEPT ![r] = "ready"]
    /\ UNCHANGED <<intVars, layoutVars, gatherVars, driverVars, connections, queues, queues_before>>

\* The process of rank 0 with a connection table of up to MaxConn connections
\* and queues that may hold an event.
InitEvents ==
    /\ IntInit({})
    /\ LayoutIdle
    /\ GatherIdle
    /\ DriverIdle
    /\ \E t \in ConnTables : connections = [r \in Ranks |-> IF r = 0 THEN t ELSE <<>>]
    /\ gspikes = [r \in Ranks |-> [values |-> <<>>, partition |-> <<>>]]
    /\ \E q \in [Groups -> QueueChoices] :
          queues = [r \in Ranks |-> IF r = 0 THEN q ELSE [g \in Groups |-> <<>>]]
    /\ queues_before = [r \in Ranks |-> [g \in Groups |-> <<>>]]
    /\ epc = [r \in Ranks |-> "done"]

NextEvents == NextSpikesIn(0) \/ MakeEventQueues(0)

SpecEvents == InitEvents /\ [][NextEvents]_vars

---------------------------------------------------------------------------
\* The simulation driver: the double-buffered epoch loop.

\* The networks the driver is run on: the connection table of every rank.
Networks ==
    {[r \in Ranks |->
         CASE r = 0 -> <<[source |-> 0, destination |-> 0, weight |-> 1,
                          delay |-> 2, index_on_domain |-> 0],
                         [source |-> 2, destination |-> 1, weight |-> 2,
                          delay |-> 2, index_on_domain |-> 1]>>
           [] r = 1 -> <<[source |-> 0, destination |-> 1, weight |-> 1,
                          delay |-> 2, index_on_domain |-> 0]>>
           [] OTHER -> <<>>],
     [r \in Ranks |->
         CASE r = 0 -> <<[source |-> 3, destination |-> 0, weight |-> 1,
                          delay |-> 4, index_on_domain |-> 0]>>
           [] r = 2 -> <<[source |-> 3, destination |-> 0, weight |-> 1,
                          delay |-> 4, index_on_domain |-> 0]>>
           [] OTHER -> <<>>]}

\* communicator::min_delay: the minimum delay over the connections of all
\* ranks (the all-reduce-min of the local minima).
min_delay(net) ==
    SetMin(UNION {{net[r][j].delay : j \in 1..Len(net[r])} : r \in Ranks})

\* One buffer for all epochs.
BufferOfEpoch_Single(k) == 0

\* The buffer of epoch k.
BufferOfEpoch(k) == k % 2

\* Epoch k is [EpochT0(k), EpochT1(k)].
EpochT0(k) == Min(k * t_interval, sim_tfinal)
EpochT1(k) == Min((k + 1) * t_interval, sim_tfinal)

\* The spikes the advance of group g of rank r can generate in epoch k: none,
\* or one of a cell of the group at a time in (t0, t1].
GroupSpikes(r, g, k) ==
    {<<>>} \cup
    {<<[source |-> c, time |-> t]>> :
        c \in {x \in Gids : gid_domain[x] = r /\ gid_group[x] = g},
        t \in (EpochT0(k) + 1)..EpochT1(k)}

\* The local spikes of rank r in buffer b, group after group.
RECURSIVE GatherLocal(_, _, _)
GatherLocal(r, b, g) ==
    IF g < 0 THEN <<>> ELSE GatherLocal(r, b, g - 1) \o spike_buf[r][b][g]

\* The events of a lane that are not due before time t.
NotBefore(lane, t) == SelectSeq(lane, LAMBDA e : e.time >= t)

DriverInit(net, tf, e) ==
    /\ connections = net
    /\ gspikes = [r \in Ranks |-> [values |-> <<>>, partition |-> <<>>]]
    /\ queues = [r \in Ranks |-> [g \in Groups |-> <<>>]]
    /\ queues_before = [r \in Ranks |-> [g \in Groups |-> <<>>]]
    /\ epc = [r \in Ranks |-> "done"]
    /\ t_interval = e
    /\ sim_tfinal = tf
    /\ dk = [r \in Ranks |-> 0]
    /\ dphase = [r \in Ranks |-> "join"]
    /\ adv = [r \in Ranks |-> [g \in Groups |-> "done"]]
    /\ xch = [r \in Ranks |-> "done"]
    /\ spike_buf = [r \in Ranks |-> [b \in Buffers |-> [g \in Groups |-> <<>>]]]
    /\ event_lanes = [r \in Ranks |-> [b \in Buffers |-> [g \in Groups |-> <<>>]]]
    /\ group_time = [r \in Ranks |-> [g \in Groups |-> 0]]
    /\ placed = [r \in Ranks |-> {}]
    /\ nspikes = 0

\* Rank r starts epoch dk[r]: the update task (it clears the spike buffer of
\* the epoch, then advances the cell groups in parallel) and, from the second
\* epoch on, the exchange task for the spikes of the epoch before.
StartEpoch(r) ==
    /\ dphase[r] = "join"
    /\ EpochT0(dk[r]) < sim_tfinal
    /\ dphase' = [dphase EXCEPT ![r] = "epoch"]
    /\ adv' = [adv EXCEPT ![r] =
                  [g \in Groups |-> IF g \in GroupsOf(r) THEN "run" ELSE "done"]]
    /\ xch' = [xch EXCEPT ![r] = IF dk[r] = 0 THEN "done" ELSE "gather"]
    /\ spike_buf' = [spike_buf EXCEPT ![r][BufferOfEpoch(dk[r])] =
                        [g \in Groups |-> <<>>]]
    /\ UNCHANGED <<nspikes, intVars, layoutVars, gatherVars, eventVars, t_interval, sim_tfinal, dk,
                   event_lanes, group_time, placed>>

\* The advance task of group g of rank r: the group integrates to the end of
\* the epoch and its spikes go to the spike buffer of the epoch.
AdvanceGroup(r, g) ==
    /\ dphase[r] = "epoch"
    /\ adv[r][g] = "run"
    /\ \E new \in GroupSpikes(r, g, dk[r]) :
          /\ nspikes + Len(new) <= MaxSpikes
          /\ nspikes' = nspikes + Len(new)
          /\ spike_buf' = [spike_buf EXCEPT ![r][BufferOfEpoch(dk[r])][g] = @ \o new]
    /\ group_time' = [group_time EXCEPT ![r][g] = EpochT1(dk[r])]
    /\ adv' = [adv EXCEPT ![r][g] = "done"]
    /\ UNCHANGED <<intVars, layoutVars, gatherVars, eventVars, t_interval, sim_tfinal, dk,
                   dphase, xch, event_lanes, placed>>

\* The exchange tasks of all ranks meet in the all-gather: every rank gets the
\* spikes of the epoch before.
ExchangeSpikes ==
    /\ \A r \in Ranks : dphase[r] = "epoch" /\ xch[r] = "gather"
    /\ gspikes' = [r \in Ranks |->
                      GatherAllWithPartition(
                          [q \in Ranks |->
                              GatherLocal(q, BufferOfEpoch(dk[q] - 1), 1)])]
    /\ xch' = [r \in Ranks |-> "generate"]
    /\ UNCHANGED <<nspikes, intVars, layoutVars, gatherVars, connections, queues, queues_before, epc,
                   t_interval, sim_tfinal, dk, dphase, adv, spike_buf,
                   event_lanes, group_time, placed>>

\* The exchange task of rank r makes the events of the global spikes and
\* builds the lanes of the next epoch from them and from the events of the
\* running epoch's lanes that are not due before the next epoch.
GenerateEvents(r) ==
    /\ dphase[r] = "epoch"
    /\ xch[r] = "generate"
    /\ LET pending == MakeEventQueuesOf(gspikes[r], connections[r], queues[r])
           next == dk[r] + 1
       IN  /\ event_lanes' = [event_lanes EXCEPT ![r][BufferOfEpoch(next)] =
                  [g \in Groups |->
                      SortEvents(NotBefore(event_lanes[r][BufferOfEpoch(dk[r])][g],
                                           EpochT0(next))
                                 \o pending[g])]]
           /\ placed' = [placed EXCEPT ![r] =
                  UNION {{[time |-> pending[g][i].time, t0 |-> EpochT0(next),
                           group_time |-> group_time[r][g]] :
                              i \in 1..Len(pending[g])} : g \in Groups}]
    /\ xch' = [xch EXCEPT ![r] = "done"]
    /\ UNCHANGED <<nspikes, intVars, layoutVars, gatherVars, eventVars, t_interval, sim_tfinal, dk,
                   dphase, adv, spike_buf, group_time>>

\* Rank r waits for its tasks and goes to the next epoch.
JoinEpoch(r) ==
    /\ dphase[r] = "epoch"
    /\ \A g \in Groups : adv[r][g] = "done"
    /\ xch[r] = "done"
    /\ dk' = [dk EXCEPT ![r] = @ + 1]
    /\ dphase' = [dphase EXCEPT ![r] = "join"]
    /\ UNCHANGED <<nspikes, intVars, layoutVars, gatherVars, eventVars, t_interval, sim_tfinal, adv,
                   xch, spike_buf, event_lanes, group_time, placed>>

\* The run ends when the simulated time has reached tfinal.
Terminate(r) ==
    /\ dphase[r] = "join"
    /\ EpochT0(dk[r]) >= sim_tfinal
    /\ dphase' = [dphase EXCEPT ![r] = "finished"]
    /\ UNCHANGED <<nspikes, intVars, layoutVars, gatherVars, eventVars, t_interval, sim_tfinal, dk,
                   adv, xch, spike_buf, event_lanes, group_time, placed>>

\* A run to a tfinal of up to MaxSimT on one of the networks, with an epoch
\* length of at most half the minimum delay.
InitDriver ==
    /\ IntInit({})
    /\ LayoutIdle
    /\ GatherIdle
    /\ \E net \in Networks, tf \in 1..MaxSimT :
          \E e \in 1..(min_delay(net) \div 2) : DriverInit(net, tf, e)

NextDriver ==
    \/ \E r \in Ranks : StartEpoch(r)
    \/ \E r \in Ranks, g \in Groups : AdvanceGroup(r, g)
    \/ ExchangeSpikes
    \/ \E r \in Ranks : GenerateEvents(r)
    \/ \E r \in Ranks : JoinEpoch(r)
    \/ \E r \in Ranks : Terminate(r)

SpecDriver == InitDriver /\ [][NextDriver]_vars

---------------------------------------------------------------------------
\* fvm_build_mechanism_data: the config of one point mechanism
\* (src/arbor/fvm_layout.cpp, lines 1031-1149)

MaxInst == 3          \* placements of the mechanism
MaxLid == 3           \* greatest local id of a placement
NParam == 2           \* info.parameters.size()
MaxCv == 1            \* greatest CV index

ParamValues == [1..NParam -> 0..1]

\* A placement of the mechanism: its local id, the CV location_cv finds for
\* its location, and its parameter values (defaults overridden by the values
\* of the description).
Placed == [lid : 0..MaxLid, cv : 0..MaxCv, param_values : ParamValues]

\* The placements of one mechanism: local ids are given in placement order.
PlacementLists ==
    {pl \in SeqsUpTo(Placed, MaxInst) :
        \A i, j \in 1..Len(pl) : i < j => pl[i].lid < pl[j].lid}

\* lines 1064-1084: one synapse_instance per placement.
InstanceOf(pm) ==
    [param_values |-> pm.param_values, target_index |-> pm.lid, cv |-> pm.cv]

\* cmp_inst_param comparing the first parameter only.
RECURSIVE cmp_inst_param_First(_, _, _)
cmp_inst_param_First(a, b, j) ==
    IF j > 1 THEN 0
    ELSE IF a.param_values[j] < b.param_values[j] THEN -1
    ELSE IF b.param_values[j] < a.param_values[j] THEN 1
    ELSE cmp_inst_param_First(a, b, j + 1)

\* lines 1091-1100: cmp_inst_param, from parameter j on.
RECURSIVE cmp_inst_param(_, _, _)
cmp_inst_param(a, b, j) ==
    IF j > NParam THEN 0
    ELSE IF a.param_values[j] < b.param_values[j] THEN -1
    ELSE IF b.param_values[j] < a.param_values[j] THEN 1
    ELSE cmp_inst_param(a, b, j + 1)

\* lines 1103-1116: the comparison of the sort of cv_order.
InstLess(a, b) ==
    IF a.cv < b.cv THEN TRUE
    ELSE IF b.cv < a.cv THEN FALSE
    ELSE IF cmp_inst_param(a, b, 1) < 0 THEN TRUE
    ELSE IF cmp_inst_param(a, b, 1) > 0 THEN FALSE
    ELSE a.target_index < b.target_index

\* Index i put into the sorted index sequence ord.
InsertIndex(insts, ord, i) ==
    LET before == {k \in 1..Len(ord) : ~InstLess(insts[i], insts[ord[k]])}
        n == IF before = {} THEN 0 ELSE SetMax(before)
    IN  SubSeq(ord, 1, n) \o <<i>> \o SubSeq(ord, n + 1, Len(ord))

\* lines 1102-1116: assign(cv_order, count_along(inst_list)) and sort.
RECURSIVE SortedOrder(_, _)
SortedOrder(insts, n) ==
    IF n = 0 THEN <<>>
    ELSE InsertIndex(insts, SortedOrder(insts, n - 1), n)

\* line 1118
Coalesce == linear /\ coalesce_synapses

\* The test of line 1133 without the comparison of the CVs.
SameEntry_ParamOnly(prev, in) == cmp_inst_param(prev, in, 1) = 0

\* line 1133: prev->cv==in.cv && cmp_inst_param(*prev, in)==0
SameEntry(prev, in) == prev.cv = in.cv /\ cmp_inst_param(prev, in, 1) = 0

\* The build of the config of one mechanism begins (lines 1040-1046).
SynInit(pl, lin, co) ==
    /\ spc = "place"
    /\ coalesce_synapses = co
    /\ linear = lin
    /\ placements = pl
    /\ inst_list = <<>>
    /\ cv_order = <<>>
    /\ config = NoConfig
    /\ emit_i = 0

\* lines 1064-1084: the loop over the placements.
PlaceInstances ==
    /\ spc = "place"
    /\ inst_list' = [i \in 1..Len(placements) |-> InstanceOf(placements[i])]
    /\ spc' = "sort"
    /\ UNCHANGED <<intVars, commVars, buildVars, geomVars, cellVars, coalesce_synapses,
                   linear, placements, cv_order, config, emit_i>>

\* lines 1102-1116
SortInstances ==
    /\ spc = "sort"
    /\ cv_order' = SortedOrder(inst_list, Len(inst_list))
    /\ spc' = "emit"
    /\ UNCHANGED <<intVars, commVars, buildVars, geomVars, cellVars, coalesce_synapses,
                   linear, placements, inst_list, config, emit_i>>

\* lines 1130-1149: one iteration of the loop over cv_order.
EmitInstance ==
    /\ spc = "emit"
    /\ emit_i < Len(cv_order)
    /\ LET in == inst_list[cv_order[emit_i + 1]]
           n == Len(config.multiplicity)
       IN  IF Coalesce /\ emit_i > 0
              /\ SameEntry(inst_list[cv_order[emit_i]], in)
           THEN config' = [config EXCEPT
                    !.multiplicity = [config.multiplicity EXCEPT ![n] = @ + 1],
                    !.target = Append(@, in.target_index)]
           ELSE config' = [config EXCEPT
                    !.cv = Append(@, in.cv),
                    !.multiplicity = IF Coalesce THEN Append(@, 1) ELSE @,
                    !.param_values = Append(@, in.param_values),
                    !.target = Append(@, in.target_index)]
    /\ emit_i' = emit_i + 1
    /\ UNCHANGED <<intVars, commVars, buildVars, geomVars, cellVars, spc,
                   coalesce_synapses, linear, placements, inst_list, cv_order>>

\* The loop over cv_order ends.
EmitDone ==
    /\ spc = "emit"
    /\ emit_i = Len(cv_order)
    /\ spc' = "done"
    /\ UNCHANGED <<intVars, commVars, buildVars, geomVars, cellVars, coalesce_synapses,
                   linear, placements, inst_list, cv_order, config, emit_i>>

\* The placements of one point mechanism, with and without coalescing.
InitSynapses ==
    /\ IntInit({})
    /\ CellIdle
    /\ CommIdle
    /\ BuildIdle
    /\ GeomIdle
    /\ \E pl \in PlacementLists, lin \in BOOLEAN, co \in BOOLEAN :
          SynInit(pl, lin, co)

NextSynapses ==
    \/ PlaceInstances
    \/ SortInstances
    \/ EmitInstance
    \/ EmitDone

SpecSynapses == InitSynapses /\ [][NextSynapses]_vars

---------------------------------------------------------------------------
\* fvm_build_mechanism_data for one cell: the verification of the mechanisms
\* and the reversal potential methods (src/arbor/fvm_layout.cpp, lines
\* 847-1460). The CV lists and parameter tables of the configs are not kept.

Ions == {"a", "b"}
Charges == {1, 2}

\* An ion_dependency of a mechanism.
Dep(verify, expected, write_rp, write_conc) ==
    [verify_ion_charge |-> verify, expected_ion_charge |-> expected,
     write_reversal_potential |-> write_rp, write_concentration |-> write_conc]

\* A map without keys.
EmptyMap == [i \in {} |-> 0]

\* The mechanism catalogue: kind and ion dependencies by mechanism name.
catalogue ==
    [name \in {"pas", "read_a", "valence_a", "conc_rp_b",
               "write_a", "write_b", "write_ab"} |->
        CASE name = "pas" ->
                [kind |-> "density", ions |-> EmptyMap]
          [] name = "read_a" ->
                [kind |-> "density",
                 ions |-> [i \in {"a"} |-> Dep(FALSE, 0, FALSE, FALSE)]]
          [] name = "valence_a" ->
                [kind |-> "density",
                 ions |-> [i \in {"a"} |-> Dep(TRUE, 1, FALSE, FALSE)]]
          [] name = "conc_rp_b" ->
                [kind |-> "density",
                 ions |-> [i \in {"b"} |-> Dep(FALSE, 0, TRUE, TRUE)]]
          [] name = "write_a" ->
                [kind |-> "reversal_potential",
                 ions |-> [i \in {"a"} |-> Dep(FALSE, 0, TRUE, FALSE)]]
          [] name = "write_b" ->
                [kind |-> "reversal_potential",
                 ions |-> [i \in {"b"} |-> Dep(FALSE, 0, TRUE, FALSE)]]
          [] name = "write_ab" ->
                [kind |-> "reversal_potential",
                 ions |-> [i \in Ions |-> Dep(FALSE, 0, TRUE, FALSE)]]]

\* A mechanism_desc: the name and the parameter settings (all settings of
\* the model are known parameters with values in range).
Desc(name, values) == [name |-> name, values |-> values]

\* The ion_species tables: some of the ions, each with a charge.
IonTables == UNION {[S -> Charges] : S \in SUBSET Ions}

\* The mechanisms painted on the cell.
UsedLists ==
    SeqsUpTo({Desc(n, 0) : n \in {"pas", "read_a", "valence_a", "conc_rp_b",
                                  "write_a"}}, 2) \ {<<>>}

\* The descriptions a reversal potential method can be set to.
RevpotDescs ==
    {Desc(n, v) : n \in {"write_a", "write_b", "write_ab"}, v \in {0, 1}}
        \cup {Desc("pas", 0)}

\* reversal_potential_method tables over the ions S.
RevpotTables(S, descs) == UNION {[T -> descs] : T \in SUBSET S}

\* The mechanism data built so far; revpot_written lists the ions whose
\* config has revpot_written set.
NoData == <<>>
EmptyData == [revpot_written |-> {}, ions |-> EmptyMap]

\* verify_mechanism with the check of the charge left out.
verify_mechanism_NoCharge(info, desc) ==
    \A ion \in DOMAIN info.ions :
        /\ ion \in DOMAIN ion_species
        /\ ~(info.ions[ion].write_reversal_potential
             /\ info.ions[ion].write_concentration)

\* verify_mechanism, lines 870-902: TRUE when it returns, FALSE when it
\* throws cable_cell_error.
verify_mechanism(info, desc) ==
    \A ion \in DOMAIN info.ions :
        /\ ion \in DOMAIN ion_species
        /\ info.ions[ion].verify_ion_charge
              => info.ions[ion].expected_ion_charge = ion_species[ion]
        /\ ~(info.ions[ion].write_reversal_potential
             /\ info.ions[ion].write_concentration)

\* lines 1380-1381: the method of the cell, else the global one.
HasRevpotMethod(ion) ==
    ion \in DOMAIN dflt_revpot \/ ion \in DOMAIN global_revpot

RevpotMethod(ion) ==
    IF ion \in DOMAIN dflt_revpot THEN dflt_revpot[ion] ELSE global_revpot[ion]

\* The ions whose reversal potential the mechanism writes.
WrittenRevpots(info) ==
    {i \in DOMAIN info.ions : info.ions[i].write_reversal_potential}

\* The test of line 1397 comparing the names only.
SameRevpotDesc_NameOnly(existing, revpot) == existing.name = revpot.name

\* line 1397: the descriptions agree in name and values.
SameRevpotDesc(existing, revpot) ==
    ~(existing.name # revpot.name \/ existing.values # revpot.values)

\* unique_union, lines 49-81: the merge of two sorted vectors; an element
\* equal to the last one taken is not taken again.
RECURSIVE unique_union_from(_, _, _)
unique_union_from(u, a, b) ==
    IF a = <<>> /\ b = <<>> THEN u
    ELSE LET from_a == b = <<>> \/ (a # <<>> /\ Head(a) < Head(b))
             elem == IF from_a THEN Head(a) ELSE Head(b)
             u1 == IF u = <<>> \/ u[Len(u)] # elem THEN Append(u, elem) ELSE u
         IN  IF from_a THEN unique_union_from(u1, Tail(a), b)
             ELSE unique_union_from(u1, a, Tail(b))

unique_union(a, b) == unique_union_from(<<>>, a, b)

\* update_ion_support, lines 906-913
update_ion_support(support, info, cvs) ==
    [ion \in DOMAIN support \cup DOMAIN info.ions |->
        IF ion \in DOMAIN info.ions
        THEN unique_union(IF ion \in DOMAIN support THEN support[ion] ELSE <<>>,
                          cvs)
        ELSE support[ion]]

\* line 1413: M.ions[ion] makes an entry for an ion that has none.
IonEntry(ions, ion) ==
    [i \in DOMAIN ions \cup {ion} |->
        IF i \in DOMAIN ions THEN ions[i] ELSE [cv |-> <<>>]]

\* Every painted mechanism covers the CV 0.
OnFirstCv(us) == [k \in DOMAIN us |-> <<0>>]

\* The build of the mechanism data of a cell begins.
BuildInit(species, us, dflt, glob) ==
    /\ bpc = "verify"
    /\ ion_species = species
    /\ used = us
    /\ dflt_revpot = dflt
    /\ global_revpot = glob
    /\ verify_i = 0
    /\ revpot_tbl = EmptyMap
    /\ revpot_specified = {}
    /\ ions_done = {}
    /\ M = EmptyData
    /\ build_error = ""
    /\ ion_support = EmptyMap

\* An exception leaves the build: no mechanism data is returned.
BuildThrows(e) ==
    /\ bpc' = "failed"
    /\ build_error' = e
    /\ M' = NoData

\* lines 920-1012: the kind of a painted mechanism is checked, the
\* mechanism is verified and its CVs are added to the support of its ions.
VerifyUsed ==
    /\ bpc = "verify"
    /\ verify_i < Len(used)
    /\ LET desc == used[verify_i + 1]
           info == catalogue[desc.name]
       IN  IF info.kind # "density" \/ ~verify_mechanism(info, desc)
           THEN /\ BuildThrows("cable_cell_error")
                /\ UNCHANGED <<verify_i, ion_support>>
           ELSE /\ verify_i' = verify_i + 1
                /\ ion_support' = update_ion_support(ion_support, info,
                                                     used_cv[verify_i + 1])
                /\ UNCHANGED <<bpc, build_error, M>>
    /\ UNCHANGED <<intVars, commVars, synVars, geomVars, cellVars, ion_species, used,
                   dflt_revpot, global_revpot, revpot_tbl, revpot_specified,
                   ions_done, used_cv>>

\* The loop over the painted mechanisms ends.
VerifyDone ==
    /\ bpc = "verify"
    /\ verify_i = Len(used)
    /\ bpc' = "ions"
    /\ UNCHANGED <<intVars, commVars, synVars, geomVars, cellVars, ion_species, used,
                   dflt_revpot, global_revpot, verify_i, revpot_tbl,
                   revpot_specified, ions_done, M, build_error, used_cv,
                   ion_support>>

\* lines 1313-1374: the ion config of every ion of ion_support; a config
\* without CVs is not kept.
IonConfigs ==
    /\ bpc = "ions"
    /\ M' = [M EXCEPT !.ions =
                [ion \in {i \in DOMAIN ion_support : ion_support[i] # <<>>} |->
                    [cv |-> ion_support[ion]]]]
    /\ bpc' = "revpot"
    /\ UNCHANGED <<intVars, commVars, synVars, geomVars, cellVars, ion_species, used,
                   dflt_revpot, global_revpot, verify_i, revpot_tbl,
                   revpot_specified, ions_done, build_error, used_cv,
                   ion_support>>

\* lines 1379-1450: one iteration of the loop over the keys of ion_species,
\* which are visited in no particular order.
RevpotIon(ion) ==
    /\ bpc = "revpot"
    /\ ion \in DOMAIN ion_species \ ions_done
    /\ ions_done' = ions_done \cup {ion}
    /\ IF ~HasRevpotMethod(ion)
       THEN UNCHANGED <<bpc, build_error, M, revpot_tbl, revpot_specified>>
       ELSE LET revpot == RevpotMethod(ion)
                info == catalogue[revpot.name]
                written == WrittenRevpots(info)
            IN  IF \/ info.kind # "reversal_potential"
                   \/ ~verify_mechanism(info, revpot)
                   \/ \E w \in written \cap DOMAIN revpot_tbl :
                         ~SameRevpotDesc(revpot_tbl[w], revpot)
                   \/ ion \notin written
                THEN /\ BuildThrows("cable_cell_error")
                     /\ UNCHANGED <<revpot_tbl, revpot_specified>>
                ELSE /\ revpot_specified' = revpot_specified \cup {ion}
                     /\ revpot_tbl' =
                           [w \in DOMAIN revpot_tbl \cup written |->
                               IF w \in DOMAIN revpot_tbl THEN revpot_tbl[w]
                               ELSE revpot]
                     /\ M' = [M EXCEPT !.revpot_written = @ \cup {ion},
                                       !.ions = IonEntry(@, ion)]
                     /\ UNCHANGED <<bpc, build_error>>
    /\ UNCHANGED <<intVars, commVars, synVars, geomVars, cellVars, ion_species, used,
                   dflt_revpot, global_revpot, verify_i, used_cv, ion_support>>

\* lines 1453-1460: every ion written by a reversal potential mechanism needs
\* a method of its own; then the data is returned.
RevpotCheck ==
    /\ bpc = "revpot"
    /\ ions_done = DOMAIN ion_species
    /\ IF \E w \in DOMAIN revpot_tbl : w \notin revpot_specified
       THEN BuildThrows("cable_cell_error")
       ELSE /\ bpc' = "built"
            /\ UNCHANGED <<build_error, M>>
    /\ UNCHANGED <<intVars, commVars, synVars, geomVars, cellVars, ion_species, used,
                   dflt_revpot, global_revpot, verify_i, revpot_tbl,
                   revpot_specified, ions_done, used_cv, ion_support>>

NextBuild ==
    \/ VerifyUsed
    \/ VerifyDone
    \/ IonConfigs
    \/ \E ion \in Ions : RevpotIon(ion)
    \/ RevpotCheck

\* Cells with one or two painted mechanisms and no reversal potential method.
InitVerify ==
    /\ IntInit({})
    /\ CellIdle
    /\ CommIdle
    /\ SynIdle
    /\ GeomIdle
    /\ \E species \in IonTables, us \in UsedLists :
          BuildInit(species, us, EmptyMap, EmptyMap) /\ used_cv = OnFirstCv(us)

SpecVerify == InitVerify /\ [][NextBuild]_vars

\* Cells with reversal potential methods for known ions, set on the cell or
\* in the global defaults.
RevpotInputs ==
    {in \in [species : {t \in IonTables : \A i \in DOMAIN t : t[i] = 1},
             dflt : RevpotTables(Ions, RevpotDescs),
             glob : RevpotTables(Ions, {Desc("write_ab", 0)})] :
        DOMAIN in.dflt \cup DOMAIN in.glob \subseteq DOMAIN in.species}

InitRevpot ==
    /\ IntInit({})
    /\ CellIdle
    /\ CommIdle
    /\ SynIdle
    /\ GeomIdle
    /\ \E in \in RevpotInputs :
          /\ BuildInit(in.species, <<Desc("pas", 0)>>, in.dflt, in.glob)
          /\ used_cv = OnFirstCv(<<Desc("pas", 0)>>)

SpecRevpot == InitRevpot /\ [][NextBuild]_vars

\* The sorted CV lists a painted mechanism can cover; the list is empty when
\* the mechanism covers no area.
MaxIonCv == 1

CvLists ==
    {cvs \in SeqsUpTo(0..MaxIonCv, MaxIonCv + 1) :
        \A j \in 1..(Len(cvs) - 1) : cvs[j] < cvs[j + 1]}

\* Cells with one or two painted mechanisms, each on some CVs, and reversal
\* potential methods on the cell or in the global defaults.
IonInputs ==
    {in \in [species : {[i \in Ions |-> 1]},
             used : SeqsUpTo({Desc(n, 0) : n \in {"pas", "read_a", "conc_rp_b"}},
                             2) \ {<<>>},
             dflt : RevpotTables(Ions, {Desc("write_a", 0), Desc("write_b", 0)}),
             glob : RevpotTables(Ions, {Desc("write_ab", 0)})] : TRUE}

InitIons ==
    /\ IntInit({})
    /\ CellIdle
    /\ CommIdle
    /\ SynIdle
    /\ GeomIdle
    /\ \E in \in IonInputs :
          /\ BuildInit(in.species, in.used, in.dflt, in.glob)
          /\ used_cv \in [DOMAIN in.used -> CvLists]

SpecIons == InitIons /\ [][NextBuild]_vars

---------------------------------------------------------------------------
\* cv_geometry: construction and append (src/arbor/fvm_layout.cpp, lines
\* 91-109 and 146-206) and fvm_cv_discretize (lines 351-364).
\* Vectors are sequences; the CV and cell indices they hold count from 0.

MaxCells == 3         \* cells handed to fvm_cv_discretize

\* The children of CV i (counted from 0) in the parent vector ps, ascending.
RECURSIVE ChildrenOf(_, _, _)
ChildrenOf(ps, i, k) ==
    IF k > Len(ps) THEN <<>>
    ELSE (IF ps[k] = i THEN <<k - 1>> ELSE <<>>) \o ChildrenOf(ps, i, k + 1)

\* The children lists of the CVs 0..(n - 1), one after the other.
RECURSIVE ChildrenUpTo(_, _)
ChildrenUpTo(ps, n) ==
    IF n = 0 THEN <<>>
    ELSE ChildrenUpTo(ps, n - 1) \o ChildrenOf(ps, n - 1, 1)

\* The geometry the constructor makes for a cell with the CV parents ps:
\* one cable per CV, children by CV, one cell (lines 107-108) and one branch
\* map; a cell without CVs has no divisions.
CellGeom(ps) ==
    [cv_parent |-> ps,
     cv_children |-> ChildrenUpTo(ps, Len(ps)),
     cv_children_divs |->
        IF ps = <<>> THEN <<>>
        ELSE [k \in 1..(Len(ps) + 1) |-> Len(ChildrenUpTo(ps, k - 1))],
     cv_cables |-> [k \in 1..Len(ps) |-> <<Len(ps), k - 1>>],
     cv_cables_divs |->
        IF ps = <<>> THEN <<>> ELSE [k \in 1..(Len(ps) + 1) |-> k - 1],
     cv_to_cell |-> [k \in 1..Len(ps) |-> 0],
     cell_cv_divs |-> <<0, Len(ps)>>,
     branch_cv_map |-> <<ps>>]

\* The default-constructed geometry.
EmptyGeom ==
    [cv_parent |-> <<>>, cv_children |-> <<>>, cv_children_divs |-> <<>>,
     cv_cables |-> <<>>, cv_cables_divs |-> <<>>, cv_to_cell |-> <<>>,
     cell_cv_divs |-> <<>>, branch_cv_map |-> <<>>]

\* The CV trees of the cells: every CV but the root has a parent before it.
CellGeoms ==
    {CellGeom(ps) : ps \in {<<>>, <<-1>>, <<-1, 0>>, <<-1, 0, 0>>, <<-1, 0, 1>>}}

\* cv_geometry::size and cv_geometry::n_cell
size(g) == Len(g.cv_parent)
n_cell(g) == IF g.cell_cv_divs = <<>> THEN 0 ELSE Len(g.cell_cv_divs) - 1

\* append_offset without the test for npos.
append_offset_NoNpos(ctr, offset, right) ==
    ctr \o [k \in 1..Len(right) |-> offset + right[k]]

\* impl::append_offset, lines 154-160: -1 is preserved.
append_offset(ctr, offset, right) ==
    ctr \o [k \in 1..Len(right) |->
               IF right[k] + 1 = 0 THEN right[k] ELSE offset + right[k]]

\* impl::append_divs, lines 162-170
append_divs(left, right) ==
    IF left = <<>> THEN right
    ELSE IF right # <<>> THEN append_offset(left, left[Len(left)], Tail(right))
    ELSE left

\* append with the cell indices of right offset by one cell.
append_OneCell(geom, right) ==
    IF n_cell(right) = 0 THEN geom
    ELSE IF n_cell(geom) = 0 THEN right
    ELSE [cv_cables |-> geom.cv_cables \o right.cv_cables,
          cv_cables_divs |-> append_divs(geom.cv_cables_divs, right.cv_cables_divs),
          cv_parent |-> append_offset(geom.cv_parent, size(geom), right.cv_parent),
          cv_children |-> append_offset(geom.cv_children, size(geom), right.cv_children),
          cv_children_divs |-> append_divs(geom.cv_children_divs, right.cv_children_divs),
          cv_to_cell |-> append_offset(geom.cv_to_cell, 1, right.cv_to_cell),
          cell_cv_divs |-> append_divs(geom.cell_cv_divs, right.cell_cv_divs),
          branch_cv_map |-> geom.branch_cv_map \o right.branch_cv_map]

\* append(cv_geometry&, const cv_geometry&), lines 176-206
append(geom, right) ==
    IF n_cell(right) = 0 THEN geom
    ELSE IF n_cell(geom) = 0 THEN right
    ELSE [cv_cables |-> geom.cv_cables \o right.cv_cables,
          cv_cables_divs |-> append_divs(geom.cv_cables_divs, right.cv_cables_divs),
          cv_parent |-> append_offset(geom.cv_parent, size(geom), right.cv_parent),
          cv_children |-> append_offset(geom.cv_children, size(geom), right.cv_children),
          cv_children_divs |-> append_divs(geom.cv_children_divs, right.cv_children_divs),
          cv_to_cell |-> append_offset(geom.cv_to_cell, n_cell(geom), right.cv_to_cell),
          cell_cv_divs |-> append_divs(geom.cell_cv_divs, right.cell_cv_divs),
          branch_cv_map |-> geom.branch_cv_map \o right.branch_cv_map]

\* fvm_cv_discretize, lines 354-359: the cells are discretized one by one
\* and combined starts empty.
DiscretizeInit(cell_geoms) ==
    /\ apc = "append"
    /\ cell_disc = cell_geoms
    /\ n_appended = 0
    /\ combined = EmptyGeom
    /\ lhs = <<>>
    /\ rhs = <<>>

\* lines 360-362: one iteration of the loop over the cells.
AppendCell ==
    /\ apc = "append"
    /\ n_appended < Len(cell_disc)
    /\ combined' = append(combined, cell_disc[n_appended + 1])
    /\ n_appended' = n_appended + 1
    /\ UNCHANGED <<intVars, commVars, synVars, buildVars, cellVars, apc, cell_disc, lhs,
                   rhs>>

\* line 363: return combined
ReturnCombined ==
    /\ apc = "append"
    /\ n_appended = Len(cell_disc)
    /\ apc' = "done"
    /\ UNCHANGED <<intVars, commVars, synVars, buildVars, cellVars, cell_disc,
                   n_appended, combined, lhs, rhs>>

NextDiscretize ==
    \/ AppendCell
    \/ ReturnCombined

\* Up to MaxCells cells.
InitDiscretize ==
    /\ IntInit({})
    /\ CellIdle
    /\ CommIdle
    /\ SynIdle
    /\ BuildIdle
    /\ \E cs \in SeqsUpTo(CellGeoms, MaxCells) : DiscretizeInit(cs)

SpecDiscretize == InitDiscretize /\ [][NextDiscretize]_vars

\* The geometries of no cell, of one cell and of two cells.
Geoms ==
    {EmptyGeom} \cup CellGeoms \cup {append(x, y) : x, y \in CellGeoms}

\* Three geometries A, B, C = cell_disc[1], cell_disc[2], cell_disc[3] to be
\* appended in both groupings.
AssocInit(A, B, C) ==
    /\ apc = "ab"
    /\ cell_disc = <<A, B, C>>
    /\ n_appended = 0
    /\ combined = EmptyGeom
    /\ lhs = A
    /\ rhs = B

\* lhs = append(A, B)
AppendAB ==
    /\ apc = "ab"
    /\ lhs' = append(lhs, cell_disc[2])
    /\ apc' = "ab_c"
    /\ UNCHANGED <<intVars, commVars, synVars, buildVars, cellVars, cell_disc,
                   n_appended, combined, rhs>>

\* lhs = append(append(A, B), C)
AppendAB_C ==
    /\ apc = "ab_c"
    /\ lhs' = append(lhs, cell_disc[3])
    /\ apc' = "bc"
    /\ UNCHANGED <<intVars, commVars, synVars, buildVars, cellVars, cell_disc,
                   n_appended, combined, rhs>>

\* rhs = append(B, C)
AppendBC ==
    /\ apc = "bc"
    /\ rhs' = append(rhs, cell_disc[3])
    /\ apc' = "a_bc"
    /\ UNCHANGED <<intVars, commVars, synVars, buildVars, cellVars, cell_disc,
                   n_appended, combined, lhs>>

\* rhs = append(A, append(B, C))
AppendA_BC ==
    /\ apc = "a_bc"
    /\ rhs' = append(cell_disc[1], rhs)
    /\ apc' = "both"
    /\ UNCHANGED <<intVars, commVars, synVars, buildVars, cellVars, cell_disc,
                   n_appended, combined, lhs>>

NextAssoc ==
    \/ AppendAB
    \/ AppendAB_C
    \/ AppendBC
    \/ AppendA_BC

InitAssoc ==
    /\ IntInit({})
    /\ CellIdle
    /\ CommIdle
    /\ SynIdle
    /\ BuildIdle
    /\ \E A \in Geoms, B \in Geoms, C \in Geoms : AssocInit(A, B, C)

SpecAssoc == InitAssoc /\ [][NextAssoc]_vars

---------------------------------------------------------------------------
\* fvm_cv_discretize of one cell: the loop over the CVs
\* (src/arbor/fvm_layout.cpp, lines 230-349), for the membrane area, the
\* initial membrane potential and the temperature of every CV.

\* The CV trees of one cell: cv_parent, every parent before its CV.
CvTrees ==
    {<<-1>>, <<-1, 0>>, <<-1, 0, 0>>, <<-1, 0, 1>>,
     <<-1, 0, 0, 0>>, <<-1, 0, 0, 1>>, <<-1, 0, 0, 2>>,
     <<-1, 0, 1, 0>>, <<-1, 0, 1, 1>>, <<-1, 0, 1, 2>>}

\* The membrane areas the embedding integrates to.
Areas == {0, 1}

\* The area-weighted means over CV i (counted from 0) of the initial
\* membrane potential and of the temperature painted on the cell: a value
\* of its own per CV.
PaintedPotential(i) == 10 + i
PaintedTemperature(i) == 20 + i

\* Lines 237-242, 252-253: the vectors are resized to n_cv.
DiscInit(ps, areas) ==
    /\ dpc = "cv"
    /\ embedding = areas
    /\ D = [cv_parent |-> ps,
            cv_area |-> [k \in DOMAIN ps |-> 0],
            init_membrane_potential |-> [k \in DOMAIN ps |-> 0],
            temperature_K |-> [k \in DOMAIN ps |-> 0]]
    /\ cv_i = 0

\* The test of line 324 without the test for a grandparent.
ParentTakesValues_AnyParent(cv_parent, cv_area, p) ==
    /\ p # -1
    /\ cv_area[p + 1] = 0

\* Line 324: the parent is trivial and there is no grandparent.
ParentTakesValues(cv_parent, cv_area, p) ==
    /\ p # -1
    /\ cv_parent[p + 1] = -1
    /\ cv_area[p + 1] = 0

\* Lines 263-346: one iteration of the loop, for CV cv_i.
DiscretizeCV ==
    /\ dpc = "cv"
    /\ cv_i < Len(D.cv_parent)
    /\ LET i == cv_i + 1
           p == D.cv_parent[i]
           \* lines 302-318: the sums over the cables of the CV
           area == embedding[i]
           v_sum == 0 + area * PaintedPotential(cv_i)
           t_sum == D.temperature_K[i] + area * PaintedTemperature(cv_i)
           \* lines 320-321, 335-336
           v_i == IF area > 0 THEN v_sum \div area
                  ELSE IF p # -1 THEN D.init_membrane_potential[p + 1]
                  ELSE v_sum
           t_i == IF area > 0 THEN t_sum \div area
                  ELSE IF p # -1 THEN D.temperature_K[p + 1]
                  ELSE t_sum
           up == area > 0 /\ ParentTakesValues(D.cv_parent, D.cv_area, p)
       IN  D' = [D EXCEPT
                   !.cv_area[i] = area,
                   !.init_membrane_potential =
                       [k \in DOMAIN @ |->
                           IF k = i THEN v_i
                           ELSE IF up /\ k = p + 1 THEN v_i
                           ELSE @[k]],
                   !.temperature_K =
                       [k \in DOMAIN @ |->
                           IF k = i THEN t_i
                           ELSE IF up /\ k = p + 1 THEN t_i
                           ELSE @[k]]]
    /\ cv_i' = cv_i + 1
    /\ UNCHANGED <<discRest, dpc,
                   embedding>>

\* Line 348: return D
ReturnD ==
    /\ dpc = "cv"
    /\ cv_i = Len(D.cv_parent)
    /\ dpc' = "done"
    /\ UNCHANGED <<discRest,
                   embedding, D, cv_i>>

NextDisc ==
    \/ DiscretizeCV
    \/ ReturnD

InitDisc ==
    /\ IntInit({})
    /\ CommIdle
    /\ SynIdle
    /\ BuildIdle
    /\ GeomIdle
    /\ IntdomIdle
    /\ HandleIdle
    /\ LocIdle
    /\ ProbeIdle
    /\ \E ps \in CvTrees :
         \E areas \in [DOMAIN ps -> Areas] : DiscInit(ps, areas)

SpecDisc == InitDisc /\ [][NextDisc]_vars

---------------------------------------------------------------------------
\* fvm_intdom (src/arbor/fvm_lowered_cell_impl.hpp, lines 894-933)

MaxGid == 3           \* the cells of the recipe are 0..MaxGid
MaxGroup == 3         \* largest number of cells in the cell group

RecipeGids == 0..MaxGid

\* The gap junctions of a recipe: every cell has the cells it is joined to
\* as peers, and a cell is a peer of its peers.
GapJunctions ==
    {[g \in RecipeGids |->
         {b \in RecipeGids : <<g, b>> \in joins \/ <<b, g>> \in joins}] :
        joins \in SUBSET {pr \in RecipeGids \X RecipeGids : pr[1] < pr[2]}}

\* The cell groups: up to MaxGroup different cells, in any order.
GroupGids ==
    {q \in SeqsUpTo(RecipeGids, MaxGroup) :
        q # <<>> /\ \A i, j \in DOMAIN q : i # j => q[i] # q[j]}

\* The elements of S in increasing order.
RECURSIVE Ascending(_)
Ascending(S) ==
    IF S = {} THEN <<>>
    ELSE <<SetMin(S)>> \o Ascending(S \ {SetMin(S)})

\* gid_to_loc[g] of an unordered_map: a gid that is not a key is inserted
\* with the value 0.
Lookup(map, g) == IF g \in DOMAIN map THEN map[g] ELSE 0

\* lines 900-909
FvmIntdomInit(group, gj) ==
    /\ ipc = "gid"
    /\ gids = group
    /\ gj_peers = gj
    /\ cell_to_intdom = [i \in DOMAIN group |-> 0]
    /\ gid_to_loc = [g \in {group[i] : i \in DOMAIN group} |->
                        (CHOOSE i \in DOMAIN group : group[i] = g) - 1]
    /\ visited = {}
    /\ intdomq = <<>>
    /\ intdom_id = 0
    /\ gid_k = 0

\* lines 911-915: the next gid of the group; a visited gid is skipped.
NextGid ==
    /\ ipc = "gid"
    /\ gid_k < Len(gids)
    /\ gid_k' = gid_k + 1
    /\ LET gid == gids[gid_k + 1]
       IN  IF gid \in visited
           THEN UNCHANGED <<ipc, visited, intdomq>>
           ELSE /\ visited' = visited \cup {gid}
                /\ intdomq' = <<gid>>
                /\ ipc' = "queue"
    /\ UNCHANGED <<intdomRest, gids, gj_peers,
                   cell_to_intdom, gid_to_loc, intdom_id>>

\* lines 916-929: one pass of the loop over the queue.
PopIntdomq ==
    /\ ipc = "queue"
    /\ intdomq # <<>>
    /\ LET g == Head(intdomq)
           loc == Lookup(gid_to_loc, g)
           new == Ascending(gj_peers[g] \ visited)
       IN  /\ gid_to_loc' = IF g \in DOMAIN gid_to_loc THEN gid_to_loc
                            ELSE [x \in DOMAIN gid_to_loc \cup {g} |->
                                     IF x = g THEN 0 ELSE gid_to_loc[x]]
           /\ cell_to_intdom' = [cell_to_intdom EXCEPT ![loc + 1] = intdom_id]
           /\ visited' = visited \cup gj_peers[g]
           /\ intdomq' = Tail(intdomq) \o new
    /\ UNCHANGED <<intdomRest, ipc, gids,
                   gj_peers, intdom_id, gid_k>>

\* line 930: the queue is empty.
NextIntdom ==
    /\ ipc = "queue"
    /\ intdomq = <<>>
    /\ intdom_id' = intdom_id + 1
    /\ ipc' = "gid"
    /\ UNCHANGED <<intdomRest, gids, gj_peers,
                   cell_to_intdom, gid_to_loc, visited, intdomq, gid_k>>

\* line 933: return intdom_id
ReturnIntdoms ==
    /\ ipc = "gid"
    /\ gid_k = Len(gids)
    /\ ipc' = "done"
    /\ UNCHANGED <<intdomRest, gids, gj_peers,
                   cell_to_intdom, gid_to_loc, visited, intdomq, intdom_id,
                   gid_k>>

NextFvmIntdom ==
    \/ NextGid
    \/ PopIntdomq
    \/ NextIntdom
    \/ ReturnIntdoms

InitFvmIntdom ==
    /\ IntInit({})
    /\ CommIdle
    /\ SynIdle
    /\ BuildIdle
    /\ GeomIdle
    /\ DiscIdle
    /\ HandleIdle
    /\ LocIdle
    /\ ProbeIdle
    /\ \E group \in GroupGids, gj \in GapJunctions : FvmIntdomInit(group, gj)

SpecFvmIntdom == InitFvmIntdom /\ [][NextFvmIntdom]_vars

---------------------------------------------------------------------------
\* The target handles: the point mechanism configs of every cell
\* (src/arbor/fvm_layout.cpp, lines 1031-1164), their combination (lines
\* 594-659, 826-843) and the handles initialize assigns
\* (src/arbor/fvm_lowered_cell_impl.hpp, lines 773-852).

MaxTargets == 2       \* largest number of synapses placed on one cell
MaxGroupCells == 2    \* largest number of cells of the cell group

\* The point mechanisms of the catalogue, with info.linear.
PointMechs == {"expsyn", "exp2syn"}
info_linear == [name \in PointMechs |-> name = "expsyn"]

\* The parameter vectors of the placements.
TargetParams == {[j \in 1..NParam |-> v] : v \in 0..1}

\* The synapses of a cell: the placement with local id l is synapses[l + 1].
CellSynapses ==
    UNION {[1..n -> [mech : PointMechs, cv : 0..MaxCv,
                     param_values : TargetParams]] : n \in 0..MaxTargets}

\* entry.second for the mechanism name: its placements, by local id.
RECURSIVE PlacementsOf(_, _, _)
PlacementsOf(synapses, name, k) ==
    IF k > Len(synapses) THEN <<>>
    ELSE (IF synapses[k].mech = name
          THEN <<[lid |-> k - 1, cv |-> synapses[k].cv,
                  param_values |-> synapses[k].param_values]>>
          ELSE <<>>) \o PlacementsOf(synapses, name, k + 1)

\* lines 1129-1149: the config after the first k entries of cv_order.
RECURSIVE EmitConfig(_, _, _, _)
EmitConfig(insts, ord, coalesce, k) ==
    IF k = 0 THEN NoConfig
    ELSE LET c == EmitConfig(insts, ord, coalesce, k - 1)
             in == insts[ord[k]]
             n == Len(c.multiplicity)
         IN  IF coalesce /\ k > 1 /\ SameEntry(insts[ord[k - 1]], in)
             THEN [c EXCEPT
                     !.multiplicity = [c.multiplicity EXCEPT ![n] = @ + 1],
                     !.target = Append(@, in.target_index)]
             ELSE [c EXCEPT
                     !.cv = Append(@, in.cv),
                     !.multiplicity = IF coalesce THEN Append(@, 1) ELSE @,
                     !.param_values = Append(@, in.param_values),
                     !.target = Append(@, in.target_index)]

\* lines 1031-1149: the config of the mechanism name on a cell.
PointConfig(synapses, name, co) ==
    LET pl == PlacementsOf(synapses, name, 1)
        insts == [i \in 1..Len(pl) |-> InstanceOf(pl[i])]
    IN  EmitConfig(insts, SortedOrder(insts, Len(insts)),
                   info_linear[name] /\ co, Len(insts))

\* lines 1031-1164 and 1459: the mechanism data of one cell; a config
\* without CVs is not kept (line 1164).
CellMechData(synapses, co) ==
    [mechanisms |->
        [name \in {m \in PointMechs : PointConfig(synapses, m, co).cv # <<>>}
            |-> PointConfig(synapses, name, co)],
     n_target |-> Len(synapses)]

\* The default-constructed fvm_mechanism_data.
NoMechData == [mechanisms |-> EmptyMap, n_target |-> 0]

\* The targets of right appended without the offset.
AppendTargets_NoOffset(target, target_offset, right) == target \o right

\* lines 619-621, 632: the targets of right are shifted by left.n_target.
AppendTargets(target, target_offset, right) ==
    append_offset(target, target_offset, right)

\* append(fvm_mechanism_data&, const fvm_mechanism_data&), lines 594-659,
\* for the point mechanism configs and n_target.
AppendMechData(left, right) ==
    [mechanisms |->
        [name \in DOMAIN left.mechanisms \cup DOMAIN right.mechanisms |->
            IF name \notin DOMAIN right.mechanisms THEN left.mechanisms[name]
            ELSE IF name \notin DOMAIN left.mechanisms
            THEN [right.mechanisms[name] EXCEPT
                     !.target = AppendTargets(<<>>, left.n_target, @)]
            ELSE LET L == left.mechanisms[name]
                     R == right.mechanisms[name]
                 IN  [cv |-> L.cv \o R.cv,
                      multiplicity |-> L.multiplicity \o R.multiplicity,
                      param_values |-> L.param_values \o R.param_values,
                      target |-> AppendTargets(L.target, left.n_target,
                                               R.target)]],
     n_target |-> left.n_target + right.n_target]

\* util::make_partition(multiplicity_divs, layout.multiplicity): the indices
\* of part i (counted from 0).
RECURSIVE PartSum(_, _)
PartSum(mult, i) == IF i = 0 THEN 0 ELSE PartSum(mult, i - 1) + mult[i]

multiplicity_part(mult, i) == PartSum(mult, i)..(PartSum(mult, i + 1) - 1)

\* fvm_lowered_cell_impl.hpp lines 805-815: the assignments to
\* target_handles made for entry i (counted from 0) of the config of the
\* mechanism with id mid, in order. The integration domain of the handle is
\* not kept.
HandleWrites(cfg, mid, i) ==
    LET handle == [mech_id |-> mid, mech_index |-> i]
    IN  IF cfg.target = <<>> THEN <<>>
        ELSE IF cfg.multiplicity = <<>>
        THEN <<[target |-> cfg.target[i + 1], handle |-> handle]>>
        ELSE [k \in 1..cfg.multiplicity[i + 1] |->
                 [target |-> cfg.target[PartSum(cfg.multiplicity, i) + k],
                  handle |-> handle]]

\* The assignments made for the entries 0..(n - 1) of the config.
RECURSIVE ConfigWrites(_, _, _)
ConfigWrites(cfg, mid, n) ==
    IF n = 0 THEN <<>>
    ELSE ConfigWrites(cfg, mid, n - 1) \o HandleWrites(cfg, mid, n - 1)

\* No handle has been assigned.
NoHandle == [mech_id |-> -1, mech_index |-> -1]

\* The handles after the assignments ws.
RECURSIVE WriteHandles(_, _)
WriteHandles(handles, ws) ==
    IF ws = <<>> THEN handles
    ELSE WriteHandles([handles EXCEPT ![Head(ws).target + 1] = Head(ws).handle],
                      Tail(ws))

HandleInit(cs, co) ==
    /\ hpc = "build"
    /\ cell_synapses = cs
    /\ gprop_coalesce = co
    /\ cell_mech = <<>>
    /\ mech_data = NoMechData
    /\ n_combined = 0
    /\ target_handles = <<>>
    /\ n_written = <<>>
    /\ mech_ids = EmptyMap
    /\ mech_id = 0

\* fvm_layout.cpp lines 833-836: the mechanism data of every cell.
BuildCellMech ==
    /\ hpc = "build"
    /\ cell_mech' = [c \in DOMAIN cell_synapses |->
                        CellMechData(cell_synapses[c], gprop_coalesce)]
    /\ hpc' = "append"
    /\ UNCHANGED <<handleRest, cell_synapses, gprop_coalesce, mech_data,
                   n_combined, target_handles, n_written, mech_ids, mech_id>>

\* fvm_layout.cpp lines 838-841: one iteration of the loop over the cells.
AppendCellMech ==
    /\ hpc = "append"
    /\ n_combined < Len(cell_mech)
    /\ mech_data' = AppendMechData(mech_data, cell_mech[n_combined + 1])
    /\ n_combined' = n_combined + 1
    /\ UNCHANGED <<handleRest, hpc, cell_synapses, gprop_coalesce, cell_mech,
                   target_handles, n_written, mech_ids, mech_id>>

\* fvm_lowered_cell_impl.hpp line 773: target_handles.resize(n_target)
ResizeHandles ==
    /\ hpc = "append"
    /\ n_combined = Len(cell_mech)
    /\ target_handles' = [t \in 1..mech_data.n_target |-> NoHandle]
    /\ n_written' = [t \in 1..mech_data.n_target |-> 0]
    /\ hpc' = "instantiate"
    /\ UNCHANGED <<handleRest, cell_synapses, gprop_coalesce, cell_mech,
                   mech_data, n_combined, mech_ids, mech_id>>

\* fvm_lowered_cell_impl.hpp lines 778-852: one iteration of the loop over
\* the mechanisms; the map gives them in an order of its own.
InstantiateMech ==
    /\ hpc = "instantiate"
    /\ \E name \in DOMAIN mech_data.mechanisms \ DOMAIN mech_ids :
          LET cfg == mech_data.mechanisms[name]
              ws == ConfigWrites(cfg, mech_id, Len(cfg.cv))
          IN  /\ target_handles' = WriteHandles(target_handles, ws)
              /\ n_written' =
                    [t \in DOMAIN n_written |->
                        n_written[t]
                          + Cardinality({k \in DOMAIN ws : ws[k].target + 1 = t})]
              /\ mech_ids' = [m \in DOMAIN mech_ids \cup {name} |->
                                 IF m = name THEN mech_id ELSE mech_ids[m]]
    /\ mech_id' = mech_id + 1
    /\ UNCHANGED <<handleRest, hpc, cell_synapses, gprop_coalesce, cell_mech,
                   mech_data, n_combined>>

\* The loop over the mechanisms ends.
HandlesDone ==
    /\ hpc = "instantiate"
    /\ DOMAIN mech_ids = DOMAIN mech_data.mechanisms
    /\ hpc' = "done"
    /\ UNCHANGED <<handleRest, cell_synapses, gprop_coalesce, cell_mech,
                   mech_data, n_combined, target_handles, n_written, mech_ids,
                   mech_id>>

NextHandles ==
    \/ BuildCellMech
    \/ AppendCellMech
    \/ ResizeHandles
    \/ InstantiateMech
    \/ HandlesDone

InitHandles ==
    /\ IntInit({})
    /\ CommIdle
    /\ SynIdle
    /\ BuildIdle
    /\ GeomIdle
    /\ DiscIdle
    /\ IntdomIdle
    /\ LocIdle
    /\ ProbeIdle
    /\ \E cs \in SeqsUpTo(CellSynapses, MaxGroupCells), co \in BOOLEAN :
          cs # <<>> /\ HandleInit(cs, co)

SpecHandles == InitHandles /\ [][NextHandles]_vars

---------------------------------------------------------------------------
\* cv_geometry::location_cv (src/arbor/fvm_layout.cpp, lines 111-144)

MaxPos == 4      \* positions on a branch are k/MaxPos, k in 0..MaxPos

cv_prefer == {"cv_distal", "cv_proximal", "cv_nonempty", "cv_empty"}

\* The ascending sequence of the numbers in S.
RECURSIVE AscendingSeq(_)
AscendingSeq(S) ==
    IF S = {} THEN <<>>
    ELSE LET m == CHOOSE x \in S : \A y \in S : x <= y
         IN  <<m>> \o AscendingSeq(S \ {m})

\* The CV intervals of a branch: they cover the branch without gap; an
\* interval of zero extent is the cable of the CV of a fork point, the first
\* or the last interval of the branch. The CV offsets of the intervals are
\* first, first + 1, ...
BranchCvMaps ==
    {LET vs == (IF z[1] THEN <<0>> ELSE <<>>) \o <<0>> \o AscendingSeq(cut)
               \o <<MaxPos>> \o (IF z[2] THEN <<MaxPos>> ELSE <<>>)
     IN  [j \in 1..(Len(vs) - 1) |->
             [lo |-> vs[j], hi |-> vs[j + 1], value |-> first + j - 1]] :
        cut \in SUBSET (1..(MaxPos - 1)), z \in BOOLEAN \X BOOLEAN,
        first \in 0..1}

\* lines 113-115: zero_extent(j), j counted from 0
zero_extent(pw, j) == pw[j + 1].lo = pw[j + 1].hi

\* lines 117, 121-122: pw_cv_offset.index_of(loc.pos), the right-most
\* interval that holds the position
index_of(pw, pos) ==
    CHOOSE i \in 0..(Len(pw) - 1) :
        /\ pw[i + 1].lo <= pos /\ pos <= pw[i + 1].hi
        /\ i = Len(pw) - 1 \/ pos < pw[i + 2].lo

\* Every policy keeps the interval index_of found.
prefer_index_Distal(pw, pos, i, pref) == i

\* lines 125-139: the interval the policy selects
prefer_index(pw, pos, i, pref) ==
    LET i_max == Len(pw) - 1
        cv_prox == pw[i + 1].lo
    IN  CASE pref = "cv_distal" -> i
          [] pref = "cv_proximal" -> IF pos = cv_prox /\ i > 0 THEN i - 1 ELSE i
          [] pref = "cv_nonempty" ->
                IF zero_extent(pw, i)
                THEN IF i > 0 /\ ~zero_extent(pw, i - 1) THEN i - 1
                     ELSE IF i < i_max /\ ~zero_extent(pw, i + 1) THEN i + 1
                     ELSE i
                ELSE i
          [] pref = "cv_empty" ->
                IF pos = cv_prox /\ i > 0 /\ zero_extent(pw, i - 1) THEN i - 1
                ELSE i

\* lines 111-144
location_cv(pw, base, pos, pref) ==
    base + pw[prefer_index(pw, pos, index_of(pw, pos), pref) + 1].value

LocInit(pw, base, pos, pref) ==
    /\ lpc = "index_of"
    /\ pw_cv_offset = pw
    /\ cv_base = base
    /\ loc_pos = pos
    /\ prefer = pref
    /\ loc_i = 0
    /\ loc_cv = 0

\* line 117
IndexOf ==
    /\ lpc = "index_of"
    /\ loc_i' = index_of(pw_cv_offset, loc_pos)
    /\ lpc' = "prefer"
    /\ UNCHANGED <<locRest, pw_cv_offset, cv_base, loc_pos, prefer, loc_cv>>

\* lines 125-139
PreferIndex ==
    /\ lpc = "prefer"
    /\ loc_i' = prefer_index(pw_cv_offset, loc_pos, loc_i, prefer)
    /\ lpc' = "value"
    /\ UNCHANGED <<locRest, pw_cv_offset, cv_base, loc_pos, prefer, loc_cv>>

\* lines 141-142
ReturnCv ==
    /\ lpc = "value"
    /\ loc_cv' = cv_base + pw_cv_offset[loc_i + 1].value
    /\ lpc' = "done"
    /\ UNCHANGED <<locRest, pw_cv_offset, cv_base, loc_pos, prefer, loc_i>>

NextLoc ==
    \/ IndexOf
    \/ PreferIndex
    \/ ReturnCv

InitLoc ==
    /\ IntInit({})
    /\ CommIdle
    /\ SynIdle
    /\ BuildIdle
    /\ GeomIdle
    /\ DiscIdle
    /\ IntdomIdle
    /\ HandleIdle
    /\ ProbeIdle
    /\ \E pw \in BranchCvMaps, base \in {0, MaxPos + 2}, pos \in 0..MaxPos,
          pref \in cv_prefer : LocInit(pw, base, pos, pref)

SpecLoc == InitLoc /\ [][NextLoc]_vars

---------------------------------------------------------------------------
\* The probe association map (src/arbor/fvm_lowered_cell.hpp, lines 154-172)
\* as initialize fills it (src/arbor/fvm_lowered_cell_impl.hpp, lines
\* 859-884).

MaxProbeCells == 2    \* largest number of cells of the group
MaxProbes == 2        \* largest number of probes of a cell
MaxRecords == 2       \* largest number of locations of a probe address

ProbeTags == {7, 8}

\* A probe_info: the tag, and the number of locations its address (a
\* membrane voltage probe on a locset) resolves to on the cell.
ProbeInfos == [tag : ProbeTags, n_loc : 0..MaxRecords]

\* resolve_probe_address, lines 984-1022, with resolve_probe for
\* cable_probe_membrane_voltage, lines 1025-1036: the records of the
\* address, one for every location.
resolve_probe_address(pi) == [k \in 1..pi.n_loc |-> [loc |-> k - 1]]

\* The empty probe_association_map.
NoProbes == [tag |-> EmptyMap, data |-> <<>>]

\* lines 877-878: fvm_info.probe_map.tag[probe_id] = pi.tag
SetTag(tag, probe_id, t) ==
    [id \in DOMAIN tag \cup {probe_id} |-> IF id = probe_id THEN t ELSE tag[id]]

\* lines 880-882: every record is inserted under probe_id
InsertData(data, probe_id, records) ==
    data \o [k \in DOMAIN records |-> [key |-> probe_id, value |-> records[k]]]

\* probe_association_map::size, lines 163-166: the value of the asserted
\* condition
size_asserted(pm) == Cardinality(DOMAIN pm.tag) = Len(pm.data)

ProbeInit(probes) ==
    /\ ppc = "probes"
    /\ rec_probes = probes
    /\ probe_cell = 0
    /\ probe_i = 0
    /\ probe_data = <<>>
    /\ probe_map = NoProbes

\* lines 871-883: one iteration of the loop over the probes of a cell; the
\* gid of the cell is its index.
ResolveProbe ==
    /\ ppc = "probes"
    /\ probe_cell < Len(rec_probes)
    /\ probe_i < Len(rec_probes[probe_cell + 1])
    /\ LET pi == rec_probes[probe_cell + 1][probe_i + 1]
           records == resolve_probe_address(pi)
           probe_id == <<probe_cell, probe_i>>
       IN  /\ probe_data' = records
           /\ probe_map' =
                 IF records # <<>>
                 THEN [tag |-> SetTag(probe_map.tag, probe_id, pi.tag),
                       data |-> InsertData(probe_map.data, probe_id, records)]
                 ELSE probe_map
    /\ probe_i' = probe_i + 1
    /\ UNCHANGED <<probeRest, ppc, rec_probes, probe_cell>>

\* lines 859-884: the probes of the cell are done, the next cell is taken.
NextProbeCell ==
    /\ ppc = "probes"
    /\ probe_cell < Len(rec_probes)
    /\ probe_i = Len(rec_probes[probe_cell + 1])
    /\ probe_cell' = probe_cell + 1
    /\ probe_i' = 0
    /\ UNCHANGED <<probeRest, ppc, rec_probes, probe_data, probe_map>>

\* line 891: initialize returns fvm_info.
ReturnProbes ==
    /\ ppc = "probes"
    /\ probe_cell = Len(rec_probes)
    /\ ppc' = "done"
    /\ UNCHANGED <<probeRest, rec_probes, probe_cell, probe_i, probe_data,
                   probe_map>>

NextProbes ==
    \/ ResolveProbe
    \/ NextProbeCell
    \/ ReturnProbes

InitProbes ==
    /\ IntInit({})
    /\ CommIdle
    /\ SynIdle
    /\ BuildIdle
    /\ GeomIdle
    /\ DiscIdle
    /\ IntdomIdle
    /\ HandleIdle
    /\ LocIdle
    /\ \E probes \in SeqsUpTo(SeqsUpTo(ProbeInfos, MaxProbes), MaxProbeCells) :
          probes # <<>> /\ ProbeInit(probes)

SpecProbes == InitProbes /\ [][NextProbes]_vars

---------------------------------------------------------------------------
\* Properties of integrate

\* The ids of the events of stream c, and those not yet dropped.
StreamIds(c) == {ev_stream[c][k] : k \in 1..Len(ev_stream[c])}
Pending(c) == {ev_stream[c][k] : k \in span_begin[c]..Len(ev_stream[c])}

\* How often event id was applied, over all mechanisms.
DeliveryCount(id) ==
    LET n(m) == Cardinality({k \in 1..Len(applied[m]) : applied[m][k].id = id})
        RECURSIVE Sum(_)
        Sum(ms) == IF ms = {} THEN 0
                   ELSE LET m == SetMin(ms) IN n(m) + Sum(ms \ {m})
    IN  Sum(DOMAIN Mechs)

\* Event id was applied by the mechanism it targets.
DeliveredToTarget(id) ==
    \E k \in 1..Len(applied[staged[id].mech_id]) :
        applied[staged[id].mech_id][k].id = id

\* Event id was applied in the running step.
DeliveredThisStep(id) ==
    \E k \in 1..Len(applied[staged[id].mech_id]) :
        /\ applied[staged[id].mech_id][k].id = id
        /\ applied[staged[id].mech_id][k].step = step_no

\* C1 as stated: when the matrix is about to be assembled and solved, every
\* staged event with time <= the end of the step (time_to) has been delivered.
C1_DeliveredUpToStepEnd ==
    pc = "solve" =>
        \A c \in Intdoms : \A id \in StreamIds(c) :
            staged[id].time <= time_to[c] => DeliveredToTarget(id)

\* C1 amended: when the matrix is about to be assembled and solved, every
\* staged event with time <= the start of the step (time), and so every event
\* with time < time_to, has been delivered to its mechanism; an event whose
\* time is time_to itself is delivered at the start of the next step.
C1_DeliveredUpToStepStart ==
    pc = "solve" =>
        \A c \in Intdoms : \A id \in StreamIds(c) :
            (staged[id].time <= time[c] \/ staged[id].time < time_to[c])
                => DeliveredToTarget(id)

\* A later step is about to solve: an event at the step's start time was
\* delivered in this step and an event at the step's end time is still pending.
C1_Witness ==
    /\ pc = "solve"
    /\ step_no >= 2
    /\ \E c \in Intdoms :
          /\ \E id \in StreamIds(c) :
                staged[id].time = time[c] /\ DeliveredThisStep(id)
          /\ \E id \in Pending(c) : staged[id].time = time_to[c]

\* C2 as stated: at the end of a step every staged event with time <= the
\* step's time_after has been delivered exactly once.
C2_ExactlyOnceUpToTimeAfter ==
    pc = "steps_update" =>
        \A c \in Intdoms : \A id \in StreamIds(c) :
            staged[id].time <= time[c] => DeliveryCount(id) = 1

\* C2 amended: no event is ever delivered twice or to a mechanism it does not
\* target, and at the end of a step every staged event with time < the step's
\* time_after has been delivered exactly once; an event at time_after is
\* delivered by the next step of the call, if there is one.
C2_ExactlyOnceBeforeTimeAfter ==
    /\ \A id \in 1..Len(staged) :
          /\ DeliveryCount(id) <= 1
          /\ DeliveryCount(id) = 1 => DeliveredToTarget(id)
    /\ pc \in {"check_voltage", "steps_update"} =>
          \A c \in Intdoms : \A id \in StreamIds(c) :
              staged[id].time < time[c] => DeliveryCount(id) = 1

\* The end of a later step: an event was delivered in this step, after earlier
\* steps that were cut short, and an event at time_after is still pending.
C2_Witness ==
    /\ pc = "steps_update"
    /\ step_no >= 2
    /\ \E c \in Intdoms :
          /\ \E id \in StreamIds(c) : DeliveredThisStep(id)
          /\ \E id \in Pending(c) : staged[id].time = time[c]

\* Between the computation of time_to and the swap, time is the step's
\* time_before and time_to its time_after.
InStep ==
    pc \in {"stimuli", "samples", "solve", "update_state", "ions", "threshold",
            "post_event", "swap"}

\* A step is no longer than dt_max, ends no later than tfinal and no later
\* than any pending event, and ends at one of those three times.
StepBounded ==
    InStep =>
        \A c \in Intdoms :
            /\ time_to[c] - time[c] <= dt_max
            /\ time_to[c] <= tfinal
            /\ \A id \in Pending(c) : time_to[c] <= staged[id].time
            /\ \/ time_to[c] = time[c] + dt_max
               \/ time_to[c] = tfinal
               \/ \E id \in Pending(c) : time_to[c] = staged[id].time

FracLess(a, b) == a.num * b.den < b.num * a.den

\* C10: the crossings a call returns are, detector by detector, in increasing
\* time order, lie in the interval the call integrated, and were all found
\* by this call.
C10_ReturnedCrossings ==
    pc = "finish" =>
        /\ \A i, j \in 1..Len(crossings) :
              (i < j /\ crossings[i].index = crossings[j].index)
                  => FracLess(crossings[i].time, crossings[j].time)
        /\ \A i \in 1..Len(crossings) :
              /\ t_call * crossings[i].time.den <= crossings[i].time.num
              /\ crossings[i].time.num <= tfinal * crossings[i].time.den
              /\ crossings[i].call = ncall

\* The second call returns a crossing after the first call returned one.
C10_Witness ==
    /\ pc = "finish"
    /\ ncall = 1
    /\ returned > 0
    /\ crossings # <<>>

\* C12: a call of integrate never begins more outer iterations than the cap
\* wr_max, and when it leaves the outer loop either the cap is reached or at
\* least two iterations were made and the error is below the tolerance.
C12_WrLoopBounded ==
    /\ wr_count <= wr_max
    /\ pc = "finish" =>
          \/ wr_count = wr_max
          \/ (wr_count >= 2 /\ max_err < eps)

\* A call leaves the outer loop at the cap after an iteration of two steps.
C12_Witness ==
    /\ pc = "finish"
    /\ wr_count = wr_max
    /\ step_no >= 2

\* A voltage below -L or above L.
OutOfRange(v) == v < -check_voltage_mV_ \/ v > check_voltage_mV_

\* The voltage check of a step: with a limit L > 0, a step that leaves a voltage below -L or above L
\* ends in a range_check_failure raised in that same step, which reports the
\* bounds of the cell times and a voltage that is out of range, and no step
\* follows; a step that leaves every voltage in [-L, L] raises nothing, and
\* with L = 0 nothing is ever raised.
C14_StepChecked ==
    /\ pc = "steps_update" /\ check_voltage_mV_ > 0
          => \A d \in detectors : ~OutOfRange(voltage[d])
    /\ pc = "failed"
          => /\ check_voltage_mV_ > 0
             /\ \E d \in detectors : OutOfRange(voltage[d])
             /\ \E d \in detectors : raised.value = voltage[d]
             /\ OutOfRange(raised.value)
             /\ \A c \in Intdoms : raised.t_min <= time[c] /\ time[c] <= raised.t_max
             /\ \E c \in Intdoms : raised.t_min = time[c]
             /\ \E c \in Intdoms : raised.t_max = time[c]
             /\ raised.call = ncall /\ raised.step = step_no
    /\ pc # "failed" => raised = NoError
    /\ check_voltage_mV_ = 0 => pc # "failed"

C14_NoFurtherStep == pc = "failed" => pc' = "failed" /\ step_no' = step_no

AllAtTfinal == \A c \in Intdoms : time[c] = tfinal

\* The loop over the steps of a call with tfinal after the time of the call
\* ends only with every cell at tfinal.
C23_EndsAtTfinal ==
    (pc \in {"wr_end", "finish"} /\ tfinal > t_call) => AllAtTfinal

\* C23: a call of integrate with tfinal after the current time comes to its
\* end, and the loop over its steps ends only when every cell is at tfinal.
C23_StepLoopTerminates ==
    /\ [](pc # "idle" => <>(pc = "idle"))
    /\ []C23_EndsAtTfinal

\* The loop has ended at tfinal after more steps than were counted at the
\* start of the call: events shortened steps and the count was recomputed.
C23_Witness ==
    /\ pc = "finish"
    /\ tfinal > t_call
    /\ step_no > dt_steps(t_call, tfinal, dt_max)
    /\ AllAtTfinal

\* The operations of one step in the order stated: for check, whether the
\* voltage is checked.
RECURSIVE EachMech(_)
EachMech(m) ==
    IF m > Len(Mechs) THEN <<>>
    ELSE <<<<"deliver_events", m>>, <<"update_current", m>>>> \o EachMech(m + 1)

StepOrder(check) ==
    <<<<"revpot_update_current", 0>>, <<"mark_until_after", 0>>,
      <<"zero_currents", 0>>>>
    \o EachMech(1)
    \o <<<<"drop_marked_events", 0>>, <<"update_time_to", 0>>,
         <<"event_time_if_before", 0>>, <<"set_dt", 0>>,
         <<"add_stimulus_current", 0>>, <<"take_samples", 0>>,
         <<"assemble", 0>>, <<"solve", 0>>>>
    \o [m \in DOMAIN Mechs |-> <<"update_state", m>>]
    \o <<<<"ions_init_concentration", 0>>>>
    \o [m \in DOMAIN Mechs |-> <<"update_ions", m>>]
    \o <<<<"threshold_test", 0>>, <<"post_event", 0>>, <<"swap_time", 0>>>>
    \o (IF check THEN <<<<"assert_voltage_bounded", 0>>>> ELSE <<>>)

CrossingsOfStep ==
    {i \in 1..Len(crossings) :
        crossings[i].call = ncall /\ crossings[i].step = step_no}

\* C11: right after a threshold test, every crossing (i, t) the test reported
\* has the voltage of detector i below its threshold before the step and at
\* or above it now, and t is the linear interpolation
\* t_before + (t_after - t_before) * (threshold - V_before) / (V_after - V_before)
\* with the time and time_to of the integration domain that owns detector i.
C11_CrossingInterpolated ==
    pc = "post_event" =>
        \A k \in CrossingsOfStep :
            LET i == crossings[k].index
                c == detector_intdom[i]
                t == crossings[k].time
            IN  /\ v_before[i] < thresholds[i]
                /\ thresholds[i] <= voltage[i]
                /\ t.den > 0
                /\ (t.num - time[c] * t.den) * (voltage[i] - v_before[i])
                     = (time_to[c] - time[c]) * (thresholds[i] - v_before[i]) * t.den

\* A test reports a crossing of a detector whose integration domain took a
\* step different from the step of the other domain.
C11_Witness ==
    /\ pc = "post_event"
    /\ CrossingsOfStep # {}
    /\ \E c1, c2 \in Intdoms : time_to[c1] # time_to[c2]
    /\ \E k \in CrossingsOfStep :
          /\ crossings[k].time.den = 1
          /\ time[detector_intdom[crossings[k].index]] > 0

\* The detectors of the crossings a step appends to the list.
AppendedBy(before, after) ==
    [k \in 1..(Len(after) - Len(before)) |-> after[Len(before) + k].index]

\* A test of the watcher: the flags after it say whether the voltage is at or
\* above the threshold, and the crossings appended are one for every
\* detector whose flag changes from false to true, and no other.
TestUpdatesFlags ==
    (pc = "threshold" /\ pc' = "post_event") =>
        /\ \A d \in detectors : is_crossed'[d] = (voltage[d] >= thresholds[d])
        /\ Len(crossings') >= Len(crossings)
        /\ SubSeq(crossings', 1, Len(crossings)) = crossings
        /\ \A d \in detectors :
              Cardinality({k \in DOMAIN AppendedBy(crossings, crossings') :
                              AppendedBy(crossings, crossings')[k] = d})
                 = IF ~is_crossed[d] /\ is_crossed'[d] THEN 1 ELSE 0

\* clear_crossings at the start of a call: the list is emptied and the flags
\* stay.
ClearKeepsFlags ==
    (pc = "idle" /\ pc' # "idle") =>
        /\ crossings' = <<>>
        /\ is_crossed' = is_crossed

\* C24: after every test of the threshold watcher each detector's flag equals
\* (voltage >= threshold); the test appends a crossing for a detector exactly
\* when its flag changes from false to true, and nothing on a falling
\* transition or while the voltage stays above or stays below the threshold;
\* clear_crossings empties the list and leaves the flags unchanged.
C24_WatcherFlags == [][TestUpdatesFlags /\ ClearKeepsFlags]_vars

\* A test has found a falling transition of a detector that had crossed
\* before, and has appended no crossing for it.
C24_Witness ==
    /\ pc = "post_event"
    /\ crossings # <<>>
    /\ \E d \in detectors :
          /\ v_before[d] >= thresholds[d]
          /\ voltage[d] < thresholds[d]
          /\ ~is_crossed[d]
          /\ \E k \in DOMAIN crossings : crossings[k].index = d
          /\ \A k \in CrossingsOfStep : crossings[k].index # d

---------------------------------------------------------------------------
\* Properties of the spike exchange

\* The sequences f[0], ..., f[r] one after the other.
RECURSIVE ConcatRanks(_, _)
ConcatRanks(f, r) == IF r < 0 THEN <<>> ELSE ConcatRanks(f, r - 1) \o f[r]

\* How often x occurs in the sequence s.
CountIn(s, x) == Cardinality({i \in 1..Len(s) : s[i] = x})

\* How often x occurs in f[0], ..., f[r] together.
RECURSIVE CountInRanks(_, _, _)
CountInRanks(f, r, x) ==
    IF r < 0 THEN 0 ELSE CountInRanks(f, r - 1, x) + CountIn(f[r], x)

\* Slice i (a rank) of a gathered vector.
Slice(g, i) == SubSeq(g.values, g.partition[i + 1] + 1, g.partition[i + 2])

\* The ranks on which exchange has returned.
Done == {r \in Ranks : gpc[r] = "done"}

\* Every rank that has returned holds the same sequence, in which every
\* contributed spike occurs exactly as often as it was contributed.
SameEverywhereEachOnce ==
    /\ \A r, q \in Done : gathered[r].values = gathered[q].values
    /\ \A r \in Done : \A x \in Spikes \cup {DefaultSpike} :
          CountIn(gathered[r].values, x) = CountInRanks(local_in, NRanks - 1, x)

\* C5 as stated: after one exchange every process holds the same global
\* spike sequence, with every contributed spike exactly once, and the
\* sequence is in sorted (source, time) order.
C5_SameSequenceSorted ==
    /\ SameEverywhereEachOnce
    /\ \A r \in Done : \A i, j \in 1..Len(gathered[r].values) :
          i < j => ~SpikeLess(gathered[r].values[j], gathered[r].values[i])

\* C5 amended: after one exchange every process holds the same global spike
\* sequence, with every contributed spike exactly once; the sequence is the
\* ranks' contributions in rank order, each of them in non-decreasing order
\* of source.
C5_SameSequenceSortedSlices ==
    /\ SameEverywhereEachOnce
    /\ \A r \in Done : \A q \in Ranks :
          /\ \A x \in Spikes :
                CountIn(Slice(gathered[r], q), x) = CountIn(local_in[q], x)
          /\ \A i, j \in 1..Len(Slice(gathered[r], q)) :
                i < j => Slice(gathered[r], q)[i].source
                             <= Slice(gathered[r], q)[j].source

\* Every rank has returned from an exchange to which every rank contributed
\* a spike, and the common sequence is not sorted.
C5_Witness ==
    /\ Done = Ranks
    /\ \A r \in Ranks : local_in[r] # <<>>
    /\ \E i, j \in 1..Len(gathered[0].values) :
          i < j /\ SpikeLess(gathered[0].values[j], gathered[0].values[i])

\* C6: the all-gather with partition returns on every rank the concatenation
\* of the ranks' sequences in rank order and a partition of length P+1 with
\* partition[0] = 0 and partition[r+1] - partition[r] = n_r, so that slice r
\* of the values is the contribution of rank r.
C6_GatherAllWithPartition ==
    \A r \in Done :
        /\ gathered[r].values = ConcatRanks(sendbuf, NRanks - 1)
        /\ Len(gathered[r].partition) = NRanks + 1
        /\ gathered[r].partition[1] = 0
        /\ \A q \in Ranks :
              /\ gathered[r].partition[q + 2] - gathered[r].partition[q + 1]
                    = Len(sendbuf[q])
              /\ Slice(gathered[r], q) = sendbuf[q]

\* Every rank has returned from a gather with different counts on the ranks,
\* one of them contributing nothing.
C6_Witness ==
    /\ Done = Ranks
    /\ \E q, u, v \in Ranks :
          Len(sendbuf[q]) = 0 /\ Len(sendbuf[u]) = 1 /\ Len(sendbuf[v]) = 2

---------------------------------------------------------------------------
\* Properties of the event generation

\* The (spike, connection) pairs of rank r that match and whose event, as the
\* claim states it, is e in the queue of group g.
MatchingPairs(r, g, e) ==
    {p \in (1..Len(gspikes[r].values)) \X (1..Len(connections[r])) :
        LET sp == gspikes[r].values[p[1]]
            c == connections[r][p[2]]
        IN  /\ sp.source = c.source
            /\ c.index_on_domain = g
            /\ e = [target |-> c.destination, time |-> sp.time + c.delay,
                    weight |-> c.weight]}

\* The events that can occur in a queue of the model.
EventValues == [target : 0..1, time : 0..6, weight : 0..3]

\* C7: make_event_queues appends exactly one event {target = c.destination,
\* time = s.time + c.delay, weight = c.weight} per pair of a global spike s
\* and a local connection c with s.source = c.source to the queue of the group
\* that owns c, appends nothing else, and keeps the events the queues held.
C7_OneEventPerMatch ==
    \A r \in Ranks : (epc[r] = "done" /\ gspikes[r].values # <<>>) =>
        \A g \in Groups : \A e \in EventValues :
            CountIn(queues[r][g], e)
                = CountIn(queues_before[r][g], e)
                  + Cardinality(MatchingPairs(r, g, e))

\* make_event_queues has returned: a spike matched two connections, a spike
\* matched none, and a queue held an event before the call.
C7_Witness ==
    /\ epc[0] = "done"
    /\ \E g \in Groups : queues_before[0][g] # <<>>
    /\ \E i \in 1..Len(gspikes[0].values) :
          Cardinality({j \in 1..Len(connections[0]) :
              connections[0][j].source = gspikes[0].values[i].source}) = 2
    /\ \E i \in 1..Len(gspikes[0].values) :
          \A j \in 1..Len(connections[0]) :
              connections[0][j].source # gspikes[0].values[i].source

\* C8: after event generation every group's event list is in non-decreasing
\* order of time, events of equal time in order of target and then weight.
C8_QueuesSorted ==
    \A r \in Ranks : epc[r] = "done" =>
        \A g \in Groups : \A i, j \in 1..Len(queues[r][g]) :
            i < j => ~EventLess(queues[r][g][j], queues[r][g][i])

\* make_event_queues has returned a queue with two generated events of equal
\* time and different targets, and with the event it held before.
C8_Witness ==
    /\ epc[0] = "done"
    /\ \E g \in Groups :
          /\ queues_before[0][g] # <<>>
          /\ \E i, j \in 1..Len(queues[0][g]) :
                /\ i < j
                /\ queues[0][g][i].time = queues[0][g][j].time
                /\ queues[0][g][i].target < queues[0][g][j].target

---------------------------------------------------------------------------
\* Properties of the driver

\* C4: the epoch length is at most half the minimum delay over the
\* connections of all ranks, and with the spikes of epoch k-1 exchanged during
\* epoch k and turned into the lanes of epoch k+1, every generated event has a
\* time greater than or equal to the start of the epoch whose lanes it is put
\* in, and to the time its cell group has advanced to when it is put there; no
\* lane of an epoch being advanced holds an event from before the epoch.
C4_EventsNotBeforeEpoch ==
    /\ 2 * t_interval <= min_delay(connections)
    /\ \A r \in Ranks : \A p \in placed[r] :
          p.time >= p.t0 /\ p.time >= p.group_time
    /\ \A r \in Ranks : dphase[r] = "epoch" =>
          \A g \in Groups :
              \A i \in 1..Len(event_lanes[r][BufferOfEpoch(dk[r])][g]) :
                  event_lanes[r][BufferOfEpoch(dk[r])][g][i].time >= EpochT0(dk[r])

\* With the epoch length at half the minimum delay, an event was put in the
\* lanes of an epoch that starts one tick before the event's time.
C4_Witness ==
    /\ 2 * t_interval = min_delay(connections)
    /\ \E r \in Ranks : \E p \in placed[r] : p.time = p.t0 + 1

\* The data a task reads or writes, by the state the task is in.
Object(o, b, g) == [obj |-> o, buf |-> b, grp |-> g]

AdvWrites(r, g) ==
    IF dphase[r] = "epoch" /\ adv[r][g] = "run"
    THEN {Object("state", 0, g), Object("spikes", BufferOfEpoch(dk[r]), g)}
    ELSE {}

AdvReads(r, g) ==
    IF dphase[r] = "epoch" /\ adv[r][g] = "run"
    THEN {Object("lanes", BufferOfEpoch(dk[r]), g)}
    ELSE {}

XchWrites(r) ==
    CASE dphase[r] = "epoch" /\ xch[r] = "gather" -> {Object("gspikes", 0, 0)}
      [] dphase[r] = "epoch" /\ xch[r] = "generate" ->
            {Object("pending", 0, 0)} \cup
            {Object("lanes", BufferOfEpoch(dk[r] + 1), g) : g \in Groups}
      [] OTHER -> {}

XchReads(r) ==
    CASE dphase[r] = "epoch" /\ xch[r] = "gather" ->
            {Object("spikes", BufferOfEpoch(dk[r] - 1), g) : g \in Groups}
      [] dphase[r] = "epoch" /\ xch[r] = "generate" ->
            {Object("gspikes", 0, 0), Object("connections", 0, 0)} \cup
            {Object("lanes", BufferOfEpoch(dk[r]), g) : g \in Groups}
      [] OTHER -> {}

\* No task of a rank writes data another running task of the rank reads or
\* writes.
NoSharedWrite ==
    \A r \in Ranks : \A g \in Groups :
        /\ AdvWrites(r, g) \cap (XchReads(r) \cup XchWrites(r)) = {}
        /\ XchWrites(r) \cap (AdvReads(r, g) \cup AdvWrites(r, g)) = {}
        /\ \A h \in Groups \ {g} :
              AdvWrites(r, g) \cap (AdvReads(r, h) \cup AdvWrites(r, h)) = {}

\* A step changes the time of a cell group only as the end of the group's own
\* advance task, the lanes only in the exchange task's event generation, and
\* the global spikes only in the all-gather of the exchange tasks.
OwnWritesOnly ==
    /\ \A r \in Ranks : \A g \in Groups :
          group_time'[r][g] # group_time[r][g] =>
              adv[r][g] = "run" /\ adv'[r][g] = "done"
    /\ \A r \in Ranks :
          event_lanes'[r] # event_lanes[r] => xch[r] = "generate"
    /\ gspikes' # gspikes => \A r \in Ranks : xch[r] = "gather"

---------------------------------------------------------------------------
\* Properties of the point mechanism configs

\* The sum of the entries of a sequence of numbers.
RECURSIVE SeqSum(_)
SeqSum(q) == IF q = <<>> THEN 0 ELSE q[1] + SeqSum(Tail(q))

\* The placements on CV cv with the parameter values pv.
PlacedAt(cv, pv) ==
    {i \in 1..Len(placements) :
        placements[i].cv = cv /\ placements[i].param_values = pv}

\* C15: a config built with coalescing has one entry for every CV and
\* parameter vector some placement has, with the number of those placements
\* as multiplicity, so the multiplicities sum to the number of placements and
\* no two entries have the same CV and parameters; a config built without
\* coalescing has no multiplicities and one entry per placement.
C15_Multiplicity ==
    spc = "done" =>
        IF linear /\ coalesce_synapses
        THEN /\ Len(config.multiplicity) = Len(config.cv)
             /\ Len(config.param_values) = Len(config.cv)
             /\ SeqSum(config.multiplicity) = Len(placements)
             /\ \A e, f \in 1..Len(config.cv) :
                   (e # f /\ config.cv[e] = config.cv[f])
                       => config.param_values[e] # config.param_values[f]
             /\ \A e \in 1..Len(config.cv) :
                   config.multiplicity[e]
                       = Cardinality(PlacedAt(config.cv[e], config.param_values[e]))
             /\ \A i \in 1..Len(placements) :
                   \E e \in 1..Len(config.cv) :
                       /\ config.cv[e] = placements[i].cv
                       /\ config.param_values[e] = placements[i].param_values
        ELSE /\ config.multiplicity = <<>>
             /\ Len(config.cv) = Len(placements)
             /\ Len(config.param_values) = Len(placements)

\* Three placements, two of them with the same CV and parameters and one on
\* the same CV with other parameters, were coalesced.
C15_Witness ==
    /\ spc = "done"
    /\ linear /\ coalesce_synapses
    /\ Len(placements) = 3
    /\ \E e, f \in 1..Len(config.cv) :
          /\ e # f
          /\ config.cv[e] = config.cv[f]
          /\ config.multiplicity[e] = 2

\* The placement with local id t.
PlacementOf(t) == CHOOSE i \in 1..Len(placements) : placements[i].lid = t

\* p before q in lexicographic order.
LexLess(p, q) ==
    \E j \in 1..NParam :
        /\ p[j] < q[j]
        /\ \A k \in 1..(j - 1) : p[k] = q[k]

\* Placement a is before placement b by (CV, parameters, target index).
PlacedBefore(a, b) ==
    \/ a.cv < b.cv
    \/ a.cv = b.cv /\ LexLess(a.param_values, b.param_values)
    \/ a.cv = b.cv /\ a.param_values = b.param_values /\ a.lid < b.lid

\* C16: the target array of a config holds the local id of every placement
\* exactly once, in increasing order by (CV, parameter vector, target index),
\* and the CV list is non-decreasing.
C16_TargetsOrdered ==
    spc = "done" =>
        /\ Len(config.target) = Len(placements)
        /\ \A i \in 1..Len(placements) :
              Cardinality({k \in 1..Len(config.target) :
                              config.target[k] = placements[i].lid}) = 1
        /\ \A k \in 1..(Len(config.target) - 1) :
              PlacedBefore(placements[PlacementOf(config.target[k])],
                           placements[PlacementOf(config.target[k + 1])])
        /\ \A e \in 1..(Len(config.cv) - 1) : config.cv[e] <= config.cv[e + 1]

\* The targets of three placements are not in placement order: the second
\* parameter and the CV decide.
C16_Witness ==
    /\ spc = "done"
    /\ Len(config.target) = 3
    /\ config.target[1] > config.target[2]
    /\ placements[PlacementOf(config.target[1])].cv
          = placements[PlacementOf(config.target[2])].cv
    /\ placements[PlacementOf(config.target[1])].param_values[1]
          = placements[PlacementOf(config.target[2])].param_values[1]
    /\ config.cv[1] < config.cv[Len(config.cv)]

---------------------------------------------------------------------------
\* Properties of the build of the mechanism data

\* The painted mechanisms have passed their verification.
Verified == bpc \in {"revpot", "built"} /\ verify_i = Len(used)

\* Some painted mechanism depends on an ion that is missing from ion_species,
\* or verifies the charge of an ion and expects another charge than the
\* table's.
IonMissingOrCharge ==
    \E k \in 1..Len(used) :
        LET deps == catalogue[used[k].name].ions
        IN  \E ion \in DOMAIN deps :
                \/ ion \notin DOMAIN ion_species
                \/ /\ deps[ion].verify_ion_charge
                   /\ deps[ion].expected_ion_charge # ion_species[ion]

\* Some painted mechanism is not a density mechanism, or writes both the
\* reversal potential and the concentration of an ion.
KindOrDoubleWrite ==
    \E k \in 1..Len(used) :
        LET info == catalogue[used[k].name]
        IN  \/ info.kind # "density"
            \/ \E ion \in DOMAIN info.ions :
                   /\ info.ions[ion].write_reversal_potential
                   /\ info.ions[ion].write_concentration

\* The build has failed with cable_cell_error and returned no data.
FailedNoData ==
    bpc = "failed" /\ build_error = "cable_cell_error" /\ M = NoData

Assigned == {ion \in DOMAIN ion_species : HasRevpotMethod(ion)}

\* The ions whose reversal potential the method of ion x writes.
WritesOf(x) ==
    {i \in DOMAIN catalogue[RevpotMethod(x).name].ions :
        catalogue[RevpotMethod(x).name].ions[i].write_reversal_potential}

\* Every method is a reversal potential mechanism whose ions are known.
MethodsProper ==
    \A x \in Assigned :
        /\ catalogue[RevpotMethod(x).name].kind = "reversal_potential"
        /\ DOMAIN catalogue[RevpotMethod(x).name].ions \subseteq DOMAIN ion_species

\* Every ion written by an assigned mechanism is assigned that same
\* description.
WrittenIonsAssignedSame ==
    \A x \in Assigned : \A y \in WritesOf(x) :
        y \in Assigned /\ RevpotMethod(y) = RevpotMethod(x)

\* Every assigned mechanism writes the reversal potential of its ion.
WritesOwnIon == \A x \in Assigned : x \in WritesOf(x)

\* C18 as stated: with proper methods, the build fails when an ion written by
\* an assigned mechanism has no method or another one, and succeeds when
\* every written ion is assigned the same description.
C18_FailsIffWrittenIonDiffers ==
    MethodsProper =>
        /\ bpc = "built" => WrittenIonsAssignedSame
        /\ bpc = "failed" => ~WrittenIonsAssignedSame

\* C18: with proper methods, the build fails with cable_cell_error when an
\* ion written by an assigned mechanism has no method or another description
\* as method, and it succeeds exactly when every written ion is assigned the
\* same description and every assigned mechanism writes the ion it is the
\* method of.
C18_RevpotConsistent ==
    MethodsProper =>
        /\ bpc = "built" => WrittenIonsAssignedSame /\ WritesOwnIon
        /\ bpc = "failed"
              => FailedNoData /\ ~(WrittenIonsAssignedSame /\ WritesOwnIon)

\* A build failed because ion b, written by the method of ion a, has the
\* same mechanism with other parameter values as method.
C18_Witness ==
    /\ FailedNoData
    /\ MethodsProper
    /\ Assigned = Ions
    /\ RevpotMethod("a").name = "write_ab"
    /\ RevpotMethod("b").name = "write_ab"
    /\ RevpotMethod("a").values # RevpotMethod("b").values

---------------------------------------------------------------------------
\* Properties of the CV geometry

\* The CV indices of cell c (counted from 0) in geometry g.
CellInterval(g, c) ==
    {i \in 0..(size(g) - 1) :
        g.cell_cv_divs[c + 1] <= i /\ i < g.cell_cv_divs[c + 2]}

\* C19: in the combination of the cells appended so far, the CVs of cell c
\* are the interval [cell_cv_divs[c], cell_cv_divs[c+1]), as many as the cell
\* has, cv_to_cell is c exactly on that interval, a CV that is a root in its
\* cell has parent -1, and every other CV has its parent before it and inside
\* the interval of its cell.
C19_CellsContiguous ==
    apc \in {"append", "done"} =>
        /\ n_cell(combined) = n_appended
        /\ n_appended > 0 => combined.cell_cv_divs[1] = 0
        /\ n_appended > 0
              => combined.cell_cv_divs[n_appended + 1] = size(combined)
        /\ Len(combined.cv_to_cell) = size(combined)
        /\ \A c \in 0..(n_appended - 1) :
              LET lo == combined.cell_cv_divs[c + 1]
                  hi == combined.cell_cv_divs[c + 2]
                  cell == cell_disc[c + 1]
              IN  /\ hi - lo = Len(cell.cv_parent)
                  /\ \A i \in 0..(size(combined) - 1) :
                        (combined.cv_to_cell[i + 1] = c) <=> (lo <= i /\ i < hi)
                  /\ \A j \in 0..(hi - lo - 1) :
                        LET p == combined.cv_parent[lo + j + 1]
                        IN  IF cell.cv_parent[j + 1] = -1 THEN p = -1
                            ELSE /\ p < lo + j
                                 /\ lo <= p
                                 /\ p = lo + cell.cv_parent[j + 1]

\* Three cells were combined: the second has no CV and the third has a root
\* and a CV that is not a root.
C19_Witness ==
    /\ apc = "done"
    /\ n_appended = 3
    /\ size(cell_disc[1]) > 0
    /\ size(cell_disc[2]) = 0
    /\ size(cell_disc[3]) > 1

\* C20: append(append(A, B), C) and append(A, append(B, C)) have the same
\* cv_parent, cv_children, cv_to_cell, cables, branch maps and division
\* vectors.
C20_AppendAssociative ==
    apc = "both" =>
        /\ lhs.cv_parent = rhs.cv_parent
        /\ lhs.cv_children = rhs.cv_children
        /\ lhs.cv_to_cell = rhs.cv_to_cell
        /\ lhs.cv_children_divs = rhs.cv_children_divs
        /\ lhs.cv_cables_divs = rhs.cv_cables_divs
        /\ lhs.cell_cv_divs = rhs.cell_cv_divs
        /\ lhs.cv_cables = rhs.cv_cables
        /\ lhs.branch_cv_map = rhs.branch_cv_map

\* Both groupings were computed for geometries with CVs in A and C, where B
\* holds a cell without CVs and a cell with children.
C20_Witness ==
    /\ apc = "both"
    /\ size(cell_disc[1]) > 0
    /\ n_cell(cell_disc[2]) = 2
    /\ \E c \in 0..1 : CellInterval(cell_disc[2], c) = {}
    /\ cell_disc[2].cv_children # <<>>
    /\ size(cell_disc[3]) > 1

---------------------------------------------------------------------------
\* Properties of the discretization of one cell

\* The CVs (counted from 0) of non-zero area that are children of CV i.
NonTrivialChildren(i) ==
    {c \in 0..(Len(D.cv_parent) - 1) :
        D.cv_parent[c + 1] = i /\ embedding[c + 1] > 0}

\* CV i holds the initial values painted on CV j.
HoldsValuesOf(i, j) ==
    /\ D.init_membrane_potential[i + 1] = PaintedPotential(j)
    /\ D.temperature_K[i + 1] = PaintedTemperature(j)

\* CV i holds the initial values CV j holds.
HoldsValuesAt(i, j) ==
    /\ D.init_membrane_potential[i + 1] = D.init_membrane_potential[j + 1]
    /\ D.temperature_K[i + 1] = D.temperature_K[j + 1]

\* The statement with the child preferred: a zero-area CV holds the values
\* of a child of non-zero area when it has one, and else those of its parent
\* of non-zero area.
C21_ChildPreferred ==
    dpc = "done" =>
        \A i \in 0..(Len(D.cv_parent) - 1) :
            LET p == D.cv_parent[i + 1]
            IN  embedding[i + 1] = 0 =>
                    IF NonTrivialChildren(i) # {}
                    THEN \E c \in NonTrivialChildren(i) : HoldsValuesOf(i, c)
                    ELSE (p # -1 /\ embedding[p + 1] > 0) => HoldsValuesOf(i, p)

\* C21: a zero-area CV with a parent of non-zero area holds the initial
\* voltage and temperature of that parent, whether it has children of
\* non-zero area or not; a zero-area CV whose parent is a zero-area CV with a
\* parent holds the values its parent holds; a zero-area root holds the
\* values of its last child of non-zero area.
C21_ZeroAreaInherits ==
    dpc = "done" =>
        \A i \in 0..(Len(D.cv_parent) - 1) :
            LET p == D.cv_parent[i + 1]
                cs == NonTrivialChildren(i)
            IN  embedding[i + 1] = 0 =>
                    /\ (p # -1 /\ embedding[p + 1] > 0) => HoldsValuesOf(i, p)
                    /\ (p # -1 /\ embedding[p + 1] = 0 /\ D.cv_parent[p + 1] # -1)
                          => HoldsValuesAt(i, p)
                    /\ (p = -1 /\ cs # {})
                          => HoldsValuesOf(i, CHOOSE c \in cs : \A o \in cs : o <= c)

\* A cell was discretized that has a zero-area CV between a parent and a
\* child of non-zero area, and the CV holds the values of the parent.
C21_Witness ==
    /\ dpc = "done"
    /\ \E i \in 1..(Len(D.cv_parent) - 1) :
          /\ embedding[i + 1] = 0
          /\ embedding[D.cv_parent[i + 1] + 1] > 0
          /\ NonTrivialChildren(i) # {}
          /\ HoldsValuesOf(i, D.cv_parent[i + 1])

---------------------------------------------------------------------------
\* Properties of fvm_intdom

\* The cells joined to the cells of S by chains of gap junctions.
RECURSIVE JoinedTo(_)
JoinedTo(S) ==
    LET N == S \cup UNION {gj_peers[g] : g \in S}
    IN  IF N = S THEN S ELSE JoinedTo(N)

\* The cells of the group, by position, joined by a chain of gap junctions.
Joined(i, j) == gids[j] \in JoinedTo({gids[i]})

\* The statement of C25 for the result of fvm_intdom.
IntdomsAreComponents ==
    /\ \A i, j \in DOMAIN gids :
          (cell_to_intdom[i] = cell_to_intdom[j]) <=> Joined(i, j)
    /\ {cell_to_intdom[i] : i \in DOMAIN gids} = 0..(intdom_id - 1)

\* C25: fvm_intdom gives two cells of the group the same index exactly when
\* a chain of gap junctions joins them, and the indices used are 0..n-1 for
\* the count n it returns.
C25_IntdomsAreComponents == ipc = "done" => IntdomsAreComponents

\* Every peer of a cell of the group is in the group.
GroupClosed ==
    \A i \in DOMAIN gids : gj_peers[gids[i]] \subseteq {gids[j] : j \in DOMAIN gids}

\* For a group that holds every peer of its cells the indices are those of
\* the components.
IntdomsOfClosedGroup == (ipc = "done" /\ GroupClosed) => IntdomsAreComponents

---------------------------------------------------------------------------
\* Properties of the target handles

\* The target index of the synapse with local id l of cell c (from 1): the
\* synapses of the cells before c come first.
RECURSIVE TargetBase(_)
TargetBase(c) ==
    IF c = 1 THEN 0 ELSE TargetBase(c - 1) + Len(cell_synapses[c - 1])

\* The synapses of the group: cell and local id.
GroupSynapses ==
    {<<c, l>> : c \in DOMAIN cell_synapses, l \in 0..MaxTargets} \cap
    {x \in (DOMAIN cell_synapses) \X (0..MaxTargets) :
        x[2] < Len(cell_synapses[x[1]])}

HandleOf(x) == target_handles[TargetBase(x[1]) + x[2] + 1]

SynapseOf(x) == cell_synapses[x[1]][x[2] + 1]

\* C26: after initialize there are as many target indices as synapses, every
\* one was assigned a handle exactly once, the handle of a synapse names the
\* id of its mechanism and an entry of that mechanism's config with the CV
\* and the parameters of the synapse, and synapses coalesced into one entry
\* (same cell, mechanism, CV and parameters, with coalescing) have the same
\* handle.
C26_TargetHandles ==
    hpc = "done" =>
        /\ Len(target_handles) = mech_data.n_target
        /\ Len(target_handles) = Cardinality(GroupSynapses)
        /\ \A t \in DOMAIN target_handles : n_written[t] = 1
        /\ \A x \in GroupSynapses :
              LET syn == SynapseOf(x)
                  h == HandleOf(x)
                  cfg == mech_data.mechanisms[syn.mech]
              IN  /\ h.mech_id = mech_ids[syn.mech]
                  /\ h.mech_index \in 0..(Len(cfg.cv) - 1)
                  /\ cfg.cv[h.mech_index + 1] = syn.cv
                  /\ cfg.param_values[h.mech_index + 1] = syn.param_values
                  /\ TargetBase(x[1]) + x[2] \in
                        {cfg.target[k] :
                            k \in IF cfg.multiplicity = <<>>
                                  THEN {h.mech_index + 1}
                                  ELSE {j + 1 : j \in multiplicity_part(
                                            cfg.multiplicity, h.mech_index)}}
        /\ \A x, y \in GroupSynapses :
              (/\ x[1] = y[1]
               /\ SynapseOf(x) = SynapseOf(y)
               /\ gprop_coalesce /\ info_linear[SynapseOf(x).mech])
                  => HandleOf(x) = HandleOf(y)

\* The handles of two cells were assigned: two synapses of the second cell
\* are coalesced, and the first cell has a synapse of the same mechanism and
\* a synapse of the other mechanism.
C26_Witness ==
    /\ hpc = "done"
    /\ Len(cell_synapses) = 2
    /\ Len(cell_synapses[1]) = 2
    /\ Len(cell_synapses[2]) = 2
    /\ cell_synapses[1][1].mech # cell_synapses[1][2].mech
    /\ cell_synapses[2][1] = cell_synapses[2][2]
    /\ cell_synapses[2][1].mech = "expsyn"
    /\ gprop_coalesce
    /\ target_handles[3] = target_handles[4]
    /\ target_handles[3].mech_index > 0

---------------------------------------------------------------------------
\* Properties of location_cv

\* The intervals of the branch that hold loc.pos.
HoldingIntervals ==
    {j \in DOMAIN pw_cv_offset :
        pw_cv_offset[j].lo <= loc_pos /\ loc_pos <= pw_cv_offset[j].hi}

\* The intervals of the CV returned.
ReturnedIntervals ==
    {j \in DOMAIN pw_cv_offset : cv_base + pw_cv_offset[j].value = loc_cv}

\* C27: location_cv returns a CV with an interval of the branch that holds
\* loc.pos; when only one interval holds loc.pos every policy returns the
\* same CV; and the nonempty policy returns a CV of non-zero extent on the
\* branch when some interval that holds loc.pos has non-zero extent.
C27_LocationCv ==
    lpc = "done" =>
        /\ ReturnedIntervals \cap HoldingIntervals # {}
        /\ Cardinality(HoldingIntervals) = 1 =>
              \A p \in cv_prefer :
                  location_cv(pw_cv_offset, cv_base, loc_pos, p) = loc_cv
        /\ (/\ prefer = "cv_nonempty"
            /\ \E j \in HoldingIntervals :
                  pw_cv_offset[j].lo < pw_cv_offset[j].hi)
              => \A j \in ReturnedIntervals :
                    pw_cv_offset[j].lo < pw_cv_offset[j].hi

\* The nonempty policy has moved from the interval of zero extent at the
\* end of a branch to the interval before it.
C27_Witness ==
    /\ lpc = "done"
    /\ prefer = "cv_nonempty"
    /\ Len(pw_cv_offset) > 2
    /\ loc_pos = MaxPos
    /\ zero_extent(pw_cv_offset, index_of(pw_cv_offset, loc_pos))
    /\ loc_i = index_of(pw_cv_offset, loc_pos) - 1
    /\ loc_cv = cv_base + pw_cv_offset[loc_i + 1].value
    /\ cv_base > 0

---------------------------------------------------------------------------
\* Properties of time()

\* C28: whenever integrate has returned normally, time() (tmin_) is the time
\* of every cell, whether tfinal was above, at or below the time before the
\* call.
C28_TimeIsCellTime ==
    (pc = "idle" /\ ncall > 0) => \A c \in Intdoms : time[c] = tmin_

\* After a call whose tfinal is not below the time before the call, time()
\* is the time of every cell.
TimeIsCellTimeForward ==
    (pc = "idle" /\ ncall > 0 /\ t_call <= tfinal) =>
        \A c \in Intdoms : time[c] = tmin_

---------------------------------------------------------------------------
\* Properties of the ion table

\* The painted mechanisms that are kept (they cover some CV) and use the ion.
MechanismsUsing(ion) ==
    {k \in DOMAIN used :
        ion \in DOMAIN catalogue[used[k].name].ions /\ used_cv[k] # <<>>}

\* The CVs of a list.
CvsOf(cvs) == {cvs[j] : j \in DOMAIN cvs}

\* The ion table of built mechanism data has no entry for an ion no
\* mechanism uses, and the CVs of an entry are those of the mechanisms using
\* the ion, in increasing order.
IonTableOfUsedIons ==
    /\ \A ion \in DOMAIN M.ions : MechanismsUsing(ion) # {}
    /\ \A ion \in DOMAIN M.ions :
          LET cvs == M.ions[ion].cv
          IN  /\ cvs # <<>>
              /\ \A j \in 1..(Len(cvs) - 1) : cvs[j] < cvs[j + 1]
              /\ CvsOf(cvs) =
                    UNION {CvsOf(used_cv[k]) : k \in MechanismsUsing(ion)}

\* C29: in the mechanism data built for a cell, the ion table has an entry
\* for an ion exactly when a mechanism on the cell uses the ion, and the CV
\* list of every entry is non-empty, increasing and the union of the CVs of
\* the mechanisms using the ion, whatever reversal potential methods are set.
C29_IonTable ==
    bpc = "built" =>
        /\ \A ion \in Ions : ion \in DOMAIN M.ions <=> MechanismsUsing(ion) # {}
        /\ IonTableOfUsedIons

\* The ion table as the loop over ion_support leaves it, before the
\* reversal potential methods are looked at.
IonTableBeforeRevpot ==
    (bpc = "revpot" /\ ions_done = {}) =>
        /\ \A ion \in Ions : ion \in DOMAIN M.ions <=> MechanismsUsing(ion) # {}
        /\ IonTableOfUsedIons

---------------------------------------------------------------------------
\* Properties of the probe association map

\* C30: after initialize the probe association map has as many tag entries
\* as data entries (the condition probe_association_map::size asserts),
\* whatever number of records the probe addresses resolve to.
C30_TagsMatchData ==
    ppc = "done" => size_asserted(probe_map)

\* The probes of the group whose address resolves to some record.
ResolvedProbes ==
    {id \in (0..(MaxProbeCells - 1)) \X (0..(MaxProbes - 1)) :
        /\ id[1] < Len(rec_probes)
        /\ id[2] < Len(rec_probes[id[1] + 1])
        /\ rec_probes[id[1] + 1][id[2] + 1].n_loc > 0}

\* After initialize the map has one tag entry for every probe that resolves
\* to some record and one data entry for every record; the counts agree when
\* no address resolves to more than one record.
TagsAndDataOfProbes ==
    ppc = "done" =>
        /\ DOMAIN probe_map.tag = ResolvedProbes
        /\ \A id \in ResolvedProbes :
              Cardinality({k \in DOMAIN probe_map.data :
                              probe_map.data[k].key = id})
                 = rec_probes[id[1] + 1][id[2] + 1].n_loc
        /\ (\A id \in ResolvedProbes : rec_probes[id[1] + 1][id[2] + 1].n_loc = 1)
              => size_asserted(probe_map)

====
